---- MODULE Spec2Model ----
(***************************************************************************)
(* A model of the migrator's execution engine: the audit log, the          *)
(* revisions table, shim schemas and the user catalog, driven by the       *)
(* upgrade and downgrade loops of migrator/logic/migrate.py running the    *)
(* phases of migrator/changes.py against the tables of migrator/db.py.     *)
(*                                                                         *)
(* Database.tx() is taken to be a real transaction (psycopg2's             *)
(* "with connection" block): statements inside it become visible at the   *)
(* commit on exit and are discarded by the rollback on an exception.       *)
(* Statements outside tx() run in autocommit mode and are visible at once. *)
(***************************************************************************)
EXTENDS Integers, Sequences, FiniteSets, TLC

\* ------------------------------------------------------------- bounds

\* Commands (upgrade or downgrade invocations) started in one behaviour.
MaxRuns == 3
\* Process kills in one behaviour.
MaxKills == 1
\* Database errors injected into a phase's DDL in one behaviour.
MaxFaults == 1
\* Operator edits of an on-disk revision file in one behaviour.
MaxRewrites == 1

Procs == {"A", "B"}

None == [none |-> TRUE]

\* ------------------------------------------------- the on-disk repository

\* The repositories the model is run against.  Each has two revisions.
RepoIds == {"basic", "postonly", "rename", "inplace", "nocolumn"}

RevisionNumbers == {1, 2}

Change(kind, name) == [kind |-> kind, name |-> name]

\* The parsed body of revision r of repository id.
Migration(id, r) ==
  CASE id = "basic" /\ r = 1 ->
         [pre_deploy  |-> <<Change("run_ddl", "t1"), Change("create_index", "i1")>>,
          post_deploy |-> <<>>]
    [] id = "basic" /\ r = 2 ->
         [pre_deploy  |-> <<Change("add_constraint", "c2")>>,
          post_deploy |-> <<Change("drop_index", "i0")>>]
    [] id = "postonly" /\ r = 1 ->
         [pre_deploy  |-> <<Change("run_ddl", "t1")>>,
          post_deploy |-> <<Change("drop_constraint", "c0")>>]
    [] id = "postonly" /\ r = 2 ->
         [pre_deploy  |-> <<>>,
          post_deploy |-> <<Change("run_ddl", "t2")>>]
    [] id = "rename" /\ r = 1 ->
         [pre_deploy  |-> <<Change("begin_rename", "users")>>,
          post_deploy |-> <<>>]
    [] id = "rename" /\ r = 2 ->
         [pre_deploy  |-> <<Change("finish_rename", "users")>>,
          post_deploy |-> <<>>]
    [] id = "inplace" /\ r = 1 ->
         [pre_deploy  |-> <<Change("begin_rename", "users")>>,
          post_deploy |-> <<Change("finish_rename", "users")>>]
    [] id = "inplace" /\ r = 2 ->
         [pre_deploy  |-> <<Change("run_ddl", "t2")>>,
          post_deploy |-> <<>>]
    [] id = "nocolumn" /\ r = 1 ->
         [pre_deploy  |-> <<Change("run_ddl", "t1"), Change("begin_rename", "users")>>,
          post_deploy |-> <<>>]
    [] id = "nocolumn" /\ r = 2 ->
         [pre_deploy  |-> <<Change("finish_rename", "users")>>,
          post_deploy |-> <<>>]

\* The renames of the begin_rename / finish_rename changes: old -> new.
Renames == [c \in {"u_id"} |-> "user_id"]

\* ------------------------------------------------------------- phases

Sql(op, name) == [op |-> op, name |-> name]
NoSql == Sql("none", "-")

TransactionalDDLPhase(up, down) == [disc |-> "tx", up |-> up, down |-> down]
IdempotentDDLPhase(up, down) == [disc |-> "idem", up |-> up, down |-> down]

CreateRenameViewPhase(table) ==
  [disc |-> "tx", up |-> Sql("create_rename_view", table),
                  down |-> Sql("drop_rename_view", table)]

RenameDropViewPhase(table) ==
  [disc |-> "tx", up |-> Sql("drop_rename_view", table),
                  down |-> Sql("create_rename_view", table)]

\* A phase table in which the index changes run inside a transaction like
\* every other change.
PhasesOfAllTransactional(c) ==
  CASE c.kind = "run_ddl" ->
         <<TransactionalDDLPhase(Sql("create_table", c.name), Sql("drop_table", c.name))>>
    [] c.kind = "create_index" ->
         <<TransactionalDDLPhase(Sql("create_index", c.name), Sql("drop_index", c.name))>>
    [] c.kind = "drop_index" ->
         <<TransactionalDDLPhase(Sql("drop_index", c.name), Sql("create_index", c.name))>>
    [] c.kind = "add_constraint" ->
         <<TransactionalDDLPhase(Sql("add_constraint", c.name), Sql("drop_constraint", c.name)),
           TransactionalDDLPhase(Sql("validate_constraint", c.name), NoSql)>>
    [] c.kind = "drop_constraint" ->
         <<TransactionalDDLPhase(NoSql, Sql("validate_constraint", c.name)),
           TransactionalDDLPhase(Sql("drop_constraint", c.name), Sql("add_constraint", c.name))>>
    [] c.kind = "begin_rename" ->
         <<CreateRenameViewPhase(c.name)>>
    [] c.kind = "finish_rename" ->
         <<TransactionalDDLPhase(Sql("rename_up", c.name), Sql("rename_down", c.name)),
           RenameDropViewPhase(c.name)>>

\* The phase list of a change: each variant's _phases().
PhasesOf(c) ==
  CASE c.kind = "run_ddl" ->
         <<TransactionalDDLPhase(Sql("create_table", c.name), Sql("drop_table", c.name))>>
    [] c.kind = "create_index" ->
         <<IdempotentDDLPhase(Sql("create_index", c.name), Sql("drop_index", c.name))>>
    [] c.kind = "drop_index" ->
         <<IdempotentDDLPhase(Sql("drop_index", c.name), Sql("create_index", c.name))>>
    [] c.kind = "add_constraint" ->
         <<TransactionalDDLPhase(Sql("add_constraint", c.name), Sql("drop_constraint", c.name)),
           TransactionalDDLPhase(Sql("validate_constraint", c.name), NoSql)>>
    [] c.kind = "drop_constraint" ->
         <<TransactionalDDLPhase(NoSql, Sql("validate_constraint", c.name)),
           TransactionalDDLPhase(Sql("drop_constraint", c.name), Sql("add_constraint", c.name))>>
    [] c.kind = "begin_rename" ->
         <<CreateRenameViewPhase(c.name)>>
    [] c.kind = "finish_rename" ->
         <<TransactionalDDLPhase(Sql("rename_up", c.name), Sql("rename_down", c.name)),
           RenameDropViewPhase(c.name)>>

\* ------------------------------------------------------------ PhaseIndex

PhaseIndex(revision, mh, sh, pre_deploy, change, phase) ==
  [revision |-> revision, migration_hash |-> mh, schema_hash |-> sh,
   pre_deploy |-> pre_deploy, change |-> change, phase |-> phase]

\* A sort key that puts the post-deploy phases of a revision first.
sortkey_post_first(i) ==
  ((i.revision * 2 + (IF i.pre_deploy THEN 1 ELSE 0)) * 4 + i.change) * 4 + i.phase

\* PhaseIndex.sortkey, packed into one integer (change, phase < 4).
sortkey(i) ==
  ((i.revision * 2 + (IF i.pre_deploy THEN 0 ELSE 1)) * 4 + i.change) * 4 + i.phase

\* A revision as the planner sees it: its number, its hashes, its body.
Revision(id, number, mh, sh) ==
  [number |-> number, migration_hash |-> mh, schema_hash |-> sh,
   migration |-> Migration(id, number)]

first_index(rev) ==
  PhaseIndex(rev.number, rev.migration_hash, rev.schema_hash, TRUE, 0, 0)

RECURSIVE SeqConcat(_)
SeqConcat(ss) == IF ss = <<>> THEN <<>> ELSE Head(ss) \o SeqConcat(Tail(ss))

\* The PhaseIndex values of one change list, in list and array order.
ListIndexes(first, changes, pre) ==
  SeqConcat([c \in 1..Len(changes) |->
               [p \in 1..Len(PhasesOf(changes[c])) |->
                  [first EXCEPT !.pre_deploy = pre, !.change = c - 1, !.phase = p - 1]]])

\* Migration.phases(index): pre-deploy changes, then post-deploy changes.
MigrationPhases(m, first) ==
  ListIndexes(first, m.pre_deploy, first.pre_deploy) \o ListIndexes(first, m.post_deploy, FALSE)

RevisionPhases(rev) == MigrationPhases(rev.migration, first_index(rev))

\* Revision.last_index; None stands for the StopIteration of a revision
\* without phases.
last_index(rev) ==
  LET ps == RevisionPhases(rev)
  IN IF ps = <<>> THEN None ELSE ps[Len(ps)]

\* The phase object a PhaseIndex names in a migration.
PhaseAt(m, i) ==
  LET changes == IF i.pre_deploy THEN m.pre_deploy ELSE m.post_deploy
  IN PhasesOf(changes[i.change + 1])[i.phase + 1]

\* ------------------------------------------------------------ the catalog

\* The catalog: objects of schema public, the views held in shim schemas,
\* and the shim schemas that exist (by revision number).
Object(kind, name, st) == [kind |-> kind, name |-> name, st |-> st]

Catalog(pub, views, shims) == [pub |-> pub, views |-> views, shims |-> shims]

Has(c, kind, name) == \E o \in c.pub : o.kind = kind /\ o.name = name

Without(c, kind, name) == {o \in c.pub : ~(o.kind = kind /\ o.name = name)}

Ok(c) == [ok |-> TRUE, cat |-> c]
Raise(c) == [ok |-> FALSE, cat |-> c]

\* information_schema.columns of public.<table>.
ColumnsOf(c, table) == {o.name : o \in {x \in c.pub : x.kind = "column" /\ x.st = table}}

\* RenameMixin.rename_sql: one ALTER TABLE ... RENAME COLUMN per pair, in order.
RECURSIVE rename_sql(_, _, _)
rename_sql(c, table, pairs) ==
  IF pairs = <<>> THEN Ok(c)
  ELSE LET old == Head(pairs)[1]
           new == Head(pairs)[2]
       IN IF ~Has(c, "column", old) \/ Has(c, "column", new)
          THEN Raise(c)
          ELSE rename_sql([c EXCEPT !.pub = Without(c, "column", old)
                                              \cup {Object("column", new, table)}],
                          table, Tail(pairs))

RECURSIVE Items(_)
Items(f) ==
  IF DOMAIN f = {} THEN <<>>
  ELSE LET k == CHOOSE x \in DOMAIN f : TRUE
       IN <<<<k, f[k]>>>> \o Items([y \in DOMAIN f \ {k} |-> f[y]])

up_rename_sql == Items(Renames)
down_rename_sql == [n \in 1..Len(Items(Renames)) |-> <<Items(Renames)[n][2], Items(Renames)[n][1]>>]

\* A CREATE VIEW that aliases the columns it finds and never looks for the
\* rename keys it did not find.
create_rename_view_unchecked(c, table, rev) ==
  LET colnames == ColumnsOf(c, table)
      aliases  == {IF col \in DOMAIN Renames THEN Renames[col] ELSE col : col \in colnames}
  IN IF rev \notin c.shims THEN Raise(c)
     ELSE Ok([c EXCEPT !.views = @ \cup {[schema |-> rev, table |-> table, cols |-> aliases]}])

\* CreateRenameViewPhase.run_inner and RenameDropViewPhase.revert_inner: the
\* view of public.<table> in revision rev's shim schema, renamed columns
\* aliased.  Raises when a rename key is not a column, when the shim schema
\* is missing or when the view exists.
create_rename_view(c, table, rev) ==
  LET colnames == ColumnsOf(c, table)
      aliases  == {IF col \in DOMAIN Renames THEN Renames[col] ELSE col : col \in colnames}
  IN IF (DOMAIN Renames) \ colnames # {} THEN Raise(c)
     ELSE IF rev \notin c.shims THEN Raise(c)
     ELSE IF \E v \in c.views : v.schema = rev /\ v.table = table THEN Raise(c)
     ELSE IF Cardinality(aliases) # Cardinality(colnames) THEN Raise(c)
     ELSE Ok([c EXCEPT !.views = @ \cup {[schema |-> rev, table |-> table, cols |-> aliases]}])

\* DROP VIEW <shim of rev>.<table>
drop_rename_view(c, table, rev) ==
  IF \E v \in c.views : v.schema = rev /\ v.table = table
  THEN Ok([c EXCEPT !.views = {v \in @ : ~(v.schema = rev /\ v.table = table)}])
  ELSE Raise(c)

\* A CREATE INDEX without IF NOT EXISTS.
create_sql_plain(c, name) ==
  IF Has(c, "index", name) THEN Raise(c)
  ELSE Ok([c EXCEPT !.pub = @ \cup {Object("index", name, "-")}])

\* IndexMixin.create_sql: CREATE INDEX CONCURRENTLY IF NOT EXISTS.
create_sql(c, name) ==
  IF Has(c, "index", name) THEN Ok(c)
  ELSE Ok([c EXCEPT !.pub = @ \cup {Object("index", name, "-")}])

\* cur.execute(sql) of a phase's direction for the phase at index.
Execute(sql, index, c) ==
  CASE sql.op = "none" -> Ok(c)
    [] sql.op = "create_table" ->
         IF Has(c, "table", sql.name) THEN Raise(c)
         ELSE Ok([c EXCEPT !.pub = @ \cup {Object("table", sql.name, "-")}])
    [] sql.op = "drop_table" ->
         IF ~Has(c, "table", sql.name) THEN Raise(c)
         ELSE Ok([c EXCEPT !.pub = Without(c, "table", sql.name)])
    [] sql.op = "create_index" -> create_sql(c, sql.name)
    [] sql.op = "drop_index" ->
         Ok([c EXCEPT !.pub = Without(c, "index", sql.name)])
    [] sql.op = "add_constraint" ->
         IF Has(c, "constraint", sql.name) THEN Raise(c)
         ELSE Ok([c EXCEPT !.pub = @ \cup {Object("constraint", sql.name, "notvalid")}])
    [] sql.op = "validate_constraint" ->
         IF ~Has(c, "constraint", sql.name) THEN Raise(c)
         ELSE Ok([c EXCEPT !.pub = Without(c, "constraint", sql.name)
                                     \cup {Object("constraint", sql.name, "valid")}])
    [] sql.op = "drop_constraint" ->
         IF ~Has(c, "constraint", sql.name) THEN Raise(c)
         ELSE Ok([c EXCEPT !.pub = Without(c, "constraint", sql.name)])
    [] sql.op = "rename_up" -> rename_sql(c, sql.name, up_rename_sql)
    [] sql.op = "rename_down" -> rename_sql(c, sql.name, down_rename_sql)
    [] sql.op = "create_rename_view" -> create_rename_view(c, sql.name, index.revision)
    [] sql.op = "drop_rename_view" -> drop_rename_view(c, sql.name, index.revision)

\* Database.create_shim_schema: CREATE SCHEMA IF NOT EXISTS.
create_shim_schema(c, rev) == Ok([c EXCEPT !.shims = @ \cup {rev}])

\* DROP SCHEMA ... CASCADE: the views of the schema go with it.
drop_shim_schema_cascade(c, rev) ==
  Ok([c EXCEPT !.shims = @ \ {rev}, !.views = {v \in @ : v.schema # rev}])

\* Database.drop_shim_schema: DROP SCHEMA IF EXISTS, without CASCADE: it
\* raises while the schema still holds a view.
drop_shim_schema(c, rev) ==
  IF \E v \in c.views : v.schema = rev THEN Raise(c)
  ELSE Ok([c EXCEPT !.shims = @ \ {rev}])

\* The catalog each repository starts from.
InitialCatalog(id) ==
  CASE id = "basic" -> Catalog({Object("index", "i0", "-")}, {}, {})
    [] id = "postonly" -> Catalog({Object("constraint", "c0", "valid")}, {}, {})
    [] id \in {"rename", "inplace"} ->
         Catalog({Object("column", "u_id", "users"), Object("column", "email", "users")}, {}, {})
    [] id = "nocolumn" ->
         Catalog({Object("column", "id", "users"), Object("column", "email", "users")}, {}, {})

\* ------------------------------------------------------- the audit table

AuditRow(id, index, is_revert, finished) ==
  [id |-> id, index |-> index, is_revert |-> is_revert, finished |-> finished]

\* ORDER BY id DESC LIMIT 1 ... first()
Latest(rows) ==
  IF rows = {} THEN None
  ELSE CHOOSE r \in rows : \A o \in rows : o.id <= r.id

\* Database.get_latest_audit
get_latest_audit(rows) == Latest(rows)

\* A lookup that leaves the two hashes out of its WHERE clause.
get_audit_any_hash(rows, index, is_revert) ==
  Latest({r \in rows : sortkey(r.index) = sortkey(index) /\ r.is_revert = is_revert})

\* Database.get_audit: the latest row of exactly this index and direction;
\* None stands for the ValueError of .one() on an empty result.
get_audit(rows, index, is_revert) ==
  Latest({r \in rows : r.index = index /\ r.is_revert = is_revert})

\* A table on which the partial index was never created: every insert goes
\* through.
no_unique_index(rows) == TRUE

\* An index that is unique but not partial: it admits one row in all.
unique_index_not_partial(rows) == rows = {}

\* The unique partial index migration_audit_one_unfinished: a row with
\* finished_at NULL can be inserted only when no such row exists.
migration_audit_one_unfinished(rows) == \A r \in rows : r.finished

\* An insert that files every row as a revert.
audit_phase_start_as_revert(id, index, is_revert) == AuditRow(id, index, TRUE, FALSE)

\* An insert that takes no id from the sequence.
audit_phase_start_same_id(id, index, is_revert) == AuditRow(1, index, is_revert, FALSE)

\* Database.audit_phase_start: the row the INSERT adds, id from the sequence.
audit_phase_start(id, index, is_revert) == AuditRow(id, index, is_revert, FALSE)

\* audit_phase_revert_start: a new row for the index of the forward row
\* found, with is_revert set.
audit_phase_revert_start(id, prior) == audit_phase_start(id, prior.index, TRUE)

\* Database.audit_phase_end: SET finished_at WHERE id = ... AND finished_at IS NULL
audit_phase_end(rows, id) ==
  {IF r.id = id /\ ~r.finished THEN [r EXCEPT !.finished = TRUE] ELSE r : r \in rows}

\* audit_phase_revert_end: the same update, for the revert row.
audit_phase_revert_end(rows, id) == audit_phase_end(rows, id)

\* An UPDATE without the "AND finished_at IS NULL" of its WHERE clause.
audit_phase_end_hits_any(rows, id) == {r \in rows : r.id = id}

\* The rows the UPDATE of audit_phase_end returns.
audit_phase_end_hits(rows, id) == {r \in rows : r.id = id /\ ~r.finished}

\* ---------------------------------------------------- the revisions table

RevisionRow(rev) ==
  [revision |-> rev.number, migration_hash |-> rev.migration_hash,
   schema_hash |-> rev.schema_hash, is_deleted |-> FALSE]

\* A table without the index migration_unique_revision: only the primary
\* key stands in the way of an insert.
upsert_without_unique_revision(table, rev) ==
  IF \E x \in table : /\ x.revision = rev.number
                      /\ x.migration_hash = rev.migration_hash
                      /\ x.schema_hash = rev.schema_hash
  THEN [outcome |-> "ValueError", table |-> table]
  ELSE [outcome |-> "inserted", table |-> table \cup {RevisionRow(rev)}]

\* Database.upsert_revision: INSERT ... ON CONFLICT (primary key) DO NOTHING
\* RETURNING ..., then .one().  The outcome is "inserted", "ValueError" (the
\* insert did nothing, RETURNING gave no row and .one() failed) or
\* "UniqueViolation" (the index migration_unique_revision).
upsert_revision(table, rev) ==
  IF \E x \in table : /\ x.revision = rev.number
                      /\ x.migration_hash = rev.migration_hash
                      /\ x.schema_hash = rev.schema_hash
  THEN [outcome |-> "ValueError", table |-> table]
  ELSE IF \E x \in table : x.revision = rev.number /\ ~x.is_deleted
  THEN [outcome |-> "UniqueViolation", table |-> table]
  ELSE [outcome |-> "inserted", table |-> table \cup {RevisionRow(rev)}]

\* ------------------------------------------------------------ the planner

\* PhaseSlice {start?, start_inclusive, end?, end_inclusive}
PhaseSlice(start, start_inclusive, end, end_inclusive) ==
  [start |-> start, start_inclusive |-> start_inclusive,
   end |-> end, end_inclusive |-> end_inclusive]

\* A slice filter that takes the start of the slice in whatever the slice says.
InSlice_start_inclusive(i, slc) ==
  /\ \/ slc.start = None
     \/ sortkey(i) >= sortkey(slc.start)
  /\ \/ slc.end = None
     \/ sortkey(i) < sortkey(slc.end)
     \/ slc.end_inclusive /\ sortkey(i) = sortkey(slc.end)

\* A slice filter that takes the end of the slice in whatever the slice says.
InSlice_end_inclusive(i, slc) ==
  /\ \/ slc.start = None
     \/ sortkey(i) > sortkey(slc.start)
     \/ slc.start_inclusive /\ sortkey(i) = sortkey(slc.start)
  /\ \/ slc.end = None
     \/ sortkey(i) <= sortkey(slc.end)

\* The slice filter, comparing by the total order of PhaseIndex.
InSlice(i, slc) ==
  /\ \/ slc.start = None
     \/ sortkey(i) > sortkey(slc.start)
     \/ slc.start_inclusive /\ sortkey(i) = sortkey(slc.start)
  /\ \/ slc.end = None
     \/ sortkey(i) < sortkey(slc.end)
     \/ slc.end_inclusive /\ sortkey(i) = sortkey(slc.end)

\* RevisionList.get_phases(slice): the revisions in ascending number, each
\* one's phases in plan order, filtered by the slice.
get_phases(revs, slc) ==
  LET all == SeqConcat([n \in 1..Len(revs) |-> RevisionPhases(revs[n])])
  IN SelectSeq(all, LAMBDA i : InSlice(i, slc))

Reverse(s) == [n \in 1..Len(s) |-> s[Len(s) + 1 - n]]

\* ------------------------------------------------------------- the state

VARIABLES
  repo,       \* which repository is on disk
  disk,       \* revision number -> the hashes of its on-disk files
  audit,      \* the committed rows of migration_audit
  nextId,     \* the SERIAL sequence behind migration_audit.id
  revisions,  \* the committed rows of the revisions table
  cat,        \* the committed catalog
  proc,       \* each migrator process: position, plan, open transaction
  runs,       \* commands started so far
  kills,      \* kills so far
  faults,     \* injected DDL errors so far
  rewrites,   \* on-disk edits so far
  orphans,    \* ids of audit rows whose idempotent attempt ended between its
              \* two audit transactions
  installed,  \* whether the migrator's own schema exists in the database
  calls,      \* the direct calls of Database and Phase methods made so far
  globbed,    \* the revision numbers of the files glob returned, in its order
  parsed,     \* Repo.parse_revlist: its dict's keys, its position, its result
  connections,\* the rows of the connections table
  fixture,    \* a diff fixture: two snapshots, the generated migration, the
              \* database it is executed on
  clock       \* the database server's time, and the started_at and
              \* finished_at it has stamped on the audit rows, by id

\* The state the upgrade and downgrade commands work on.
engine == <<repo, disk, audit, nextId, revisions, cat, proc, runs, kills, faults,
            rewrites, orphans>>

\* The state only the other entry points touch.
aside == <<installed, calls, globbed, parsed, connections, fixture, clock>>

\* What those variables are while nothing uses them.
Unloaded == [keys |-> <<>>, pos |-> 0, status |-> "loading"]
Unstamped == [now |-> 0, started_at |-> <<>>, finished_at |-> <<>>]
AsideIdle ==
  /\ globbed = <<>>
  /\ parsed = Unloaded
  /\ connections = {}
  /\ fixture = None
  /\ clock = Unstamped

vars == <<engine, aside>>

\* The on-disk revisions, in ascending number (Repo.revisions).
RepoRevisions ==
  [n \in 1..Cardinality(RevisionNumbers) |->
     Revision(repo, n, disk[n].migration_hash, disk[n].schema_hash)]

\* Database.get_revisions: the non-deleted rows, in ascending number.
get_revisions ==
  SeqConcat([n \in 1..Cardinality(RevisionNumbers) |->
    IF \E x \in revisions : x.revision = n /\ ~x.is_deleted
    THEN LET x == CHOOSE x \in revisions : x.revision = n /\ ~x.is_deleted
         IN <<Revision(repo, n, x.migration_hash, x.schema_hash)>>
    ELSE <<>>])

\* revisions[number]; None stands for the KeyError.
RevisionNumbered(revs, number) ==
  IF \E n \in 1..Len(revs) : revs[n].number = number
  THEN revs[CHOOSE n \in 1..Len(revs) : revs[n].number = number]
  ELSE None

\* The revision a planned index came from.
RevOf(i) == Revision(repo, i.revision, i.migration_hash, i.schema_hash)

PhaseOf(i) == PhaseAt(RevOf(i).migration, i)

\* Some recorded revision differs from the on-disk one in its hash triple.
Stale ==
  \E x \in revisions :
    /\ ~x.is_deleted
    /\ \/ x.migration_hash # disk[x.revision].migration_hash
       \/ x.schema_hash # disk[x.revision].schema_hash

\* A context manager that commits however the block is left.
TxExitAlwaysCommits(committed, pending, raised) ==
  IF pending = None THEN committed ELSE committed \cup {pending}

\* Database.tx: what is committed when the block is left, normally or by an
\* exception (or by the death of the process).
TxExitAudit(committed, pending, raised) ==
  IF raised \/ pending = None THEN committed ELSE committed \cup {pending}

TxExitCat(committed, pending, raised) ==
  IF raised \/ pending = None THEN committed ELSE pending

\* A phase that brackets its DDL in one transaction loses the row with it.
RaiseRollsBackRow(rows, id) == {r \in rows : r.id # id}

\* IdempotentPhase: an exception between its two audit transactions leaves
\* the table as the first transaction committed it.
IdempotentRaise(rows, id) == rows

IdleProc ==
  [pc |-> "idle", cmd |-> "none", target |-> 0, todo |-> <<>>, txrow |-> None,
   txcat |-> None, aid |-> 0, err |-> "none", failpc |-> "-", fault |-> FALSE,
   seen |-> None, ran |-> <<>>, snap |-> None, stale |-> FALSE, prev |-> "none"]

Init ==
  /\ repo \in RepoIds
  /\ disk = [n \in RevisionNumbers |-> [migration_hash |-> 1, schema_hash |-> 1]]
  /\ audit = {}
  /\ nextId = 1
  /\ revisions = {}
  /\ cat = InitialCatalog(repo)
  /\ proc = [p \in Procs |-> IdleProc]
  /\ runs = 0
  /\ kills = 0
  /\ faults = 0
  /\ rewrites = 0
  /\ orphans = {}
  /\ installed = TRUE
  /\ calls = <<>>
  /\ AsideIdle

\* upgrade: "if index == revision.first_index"; downgrade: "if index ==
\* revision.last_index": the shim schema is created first.
EnterPc(cmd, i) ==
  IF cmd = "up"
  THEN IF i = first_index(RevOf(i)) THEN "shim" ELSE "astart"
  ELSE IF i = last_index(RevOf(i)) THEN "shim" ELSE "astart"

\* upgrade: "if index == revision.last_index"; downgrade: "if index ==
\* revision.first_index": the shim schema is dropped afterwards.
LeavesRevision(cmd, i) ==
  IF cmd = "up" THEN i = last_index(RevOf(i)) ELSE i = first_index(RevOf(i))

\* The loop moves to its next tuple, or the command returns.
Advance(pr) ==
  LET rest == Tail(pr.todo)
  IN IF rest = <<>>
     THEN [pr EXCEPT !.pc = "idle", !.todo = <<>>, !.err = "ok"]
     ELSE [pr EXCEPT !.pc = EnterPc(pr.cmd, Head(rest)), !.todo = rest]

Begin(pr, todo) ==
  IF todo = <<>>
  THEN [pr EXCEPT !.err = "ok"]
  ELSE [pr EXCEPT !.pc = EnterPc(pr.cmd, Head(todo)), !.todo = todo, !.err = "running"]

\* A command that shrugs an exception off and goes on with its loop.
FinishAndGoOn(pr, e) ==
  [Advance([pr EXCEPT !.txrow = None, !.txcat = None]) EXCEPT !.err = e]

\* The command ends with error e at its current position; an open
\* transaction is gone.
Finish(pr, e) ==
  [pr EXCEPT !.pc = "idle", !.err = e, !.failpc = pr.pc, !.txrow = None, !.txcat = None]

\* migrate.upgrade up to its loop.
StartUpgrade(p) ==
  /\ proc[p].pc = "idle"
  /\ runs < MaxRuns
  /\ runs' = runs + 1
  /\ LET last == get_latest_audit(audit)
         pr == [IdleProc EXCEPT !.cmd = "up", !.seen = last, !.stale = Stale,
                                !.prev = proc[p].err]
         slc == IF last = None
                THEN PhaseSlice(None, FALSE, None, FALSE)
                ELSE PhaseSlice(last.index, last.is_revert, None, FALSE)
     IN proc' = [proc EXCEPT ![p] =
                   IF last # None /\ ~last.finished
                   THEN [pr EXCEPT !.err = "AssertionError", !.failpc = "start"]
                   ELSE Begin(pr, get_phases(RepoRevisions, slc))]
  /\ UNCHANGED <<repo, disk, audit, nextId, revisions, cat, kills, faults, rewrites, orphans>>
  /\ UNCHANGED aside

\* migrate.downgrade up to its loop.
StartDowngrade(p) ==
  /\ proc[p].pc = "idle"
  /\ runs < MaxRuns
  /\ runs' = runs + 1
  /\ \E to_revision \in {0} \cup RevisionNumbers :
       LET revs == get_revisions
           first == RevisionNumbered(revs, to_revision + 1)
           last == get_latest_audit(audit)
           pr == [IdleProc EXCEPT !.cmd = "down", !.target = to_revision,
                                  !.seen = last, !.stale = Stale,
                                  !.prev = proc[p].err]
           slc == IF last = None
                  THEN PhaseSlice(first_index(first), TRUE, None, FALSE)
                  ELSE PhaseSlice(first_index(first), TRUE, last.index, ~last.is_revert)
       IN proc' = [proc EXCEPT ![p] =
                     IF first = None
                     THEN [pr EXCEPT !.err = "KeyError", !.failpc = "start"]
                     ELSE IF last # None /\ ~last.finished
                     THEN [pr EXCEPT !.err = "AssertionError", !.failpc = "start"]
                     ELSE Begin(pr, Reverse(get_phases(revs, slc)))]
  /\ UNCHANGED <<repo, disk, audit, nextId, revisions, cat, kills, faults, rewrites, orphans>>
  /\ UNCHANGED aside

\* db.create_shim_schema(revision.number)
CreateShim(p) ==
  /\ proc[p].pc = "shim"
  /\ \A q \in Procs \ {p} : proc[q].txcat = None
  /\ cat' = create_shim_schema(cat, Head(proc[p].todo).revision).cat
  /\ proc' = [proc EXCEPT ![p].pc = IF proc[p].cmd = "up" THEN "upsert" ELSE "astart"]
  /\ UNCHANGED <<repo, disk, audit, nextId, revisions, runs, kills, faults, rewrites, orphans>>
  /\ UNCHANGED aside

\* db.upsert_revision(revision)
UpsertRevision(p) ==
  /\ proc[p].pc = "upsert"
  /\ LET r == upsert_revision(revisions, RevOf(Head(proc[p].todo)))
     IN /\ revisions' = r.table
        /\ proc' = [proc EXCEPT ![p] =
                      IF r.outcome = "inserted"
                      THEN [proc[p] EXCEPT !.pc = "astart"]
                      ELSE Finish(proc[p], r.outcome)]
  /\ UNCHANGED <<repo, disk, audit, nextId, cat, runs, kills, faults, rewrites, orphans>>
  /\ UNCHANGED aside

\* The first statements of Phase.run / Phase.revert: audit_phase_start, or
\* get_audit and audit_phase_revert_start.  A transactional phase keeps the
\* row in its open transaction; an idempotent phase commits it at once.
\* While another transaction holds an uncommitted row the insert waits on
\* the unique index.
AuditStart(p) ==
  /\ proc[p].pc = "astart"
  /\ \A q \in Procs \ {p} : proc[q].txrow = None
  /\ LET pr == proc[p]
         i == Head(pr.todo)
         revert == pr.cmd = "down"
         row == IF revert
                THEN audit_phase_revert_start(nextId, get_audit(audit, i, FALSE))
                ELSE audit_phase_start(nextId, i, FALSE)
         started == [pr EXCEPT !.pc = "ddl", !.aid = row.id,
                               !.snap = [audit |-> audit, cat |-> cat]]
     IN IF revert /\ get_audit(audit, i, FALSE) = None
        THEN /\ proc' = [proc EXCEPT ![p] = Finish(pr, "ValueError")]
             /\ UNCHANGED <<audit, nextId>>
        ELSE IF ~migration_audit_one_unfinished(audit)
        THEN /\ proc' = [proc EXCEPT ![p] = Finish(pr, "UniqueViolation")]
             /\ nextId' = nextId + 1
             /\ UNCHANGED audit
        ELSE IF PhaseOf(i).disc = "tx"
        THEN /\ proc' = [proc EXCEPT ![p] = [started EXCEPT !.txrow = row]]
             /\ nextId' = nextId + 1
             /\ UNCHANGED audit
        ELSE /\ proc' = [proc EXCEPT ![p] = started]
             /\ nextId' = nextId + 1
             /\ audit' = audit \cup {row}
  /\ UNCHANGED <<repo, disk, revisions, cat, runs, kills, faults, rewrites, orphans>>
  /\ UNCHANGED aside

\* run_inner / revert_inner: the direction's DDL, inside the transaction of
\* a transactional phase, in autocommit mode for an idempotent one.  The
\* statement may also fail for a reason of the database's own (fault); a
\* transactional direction may have taken effect by then.
RunDDL(p) ==
  /\ proc[p].pc = "ddl"
  /\ \E fault \in {FALSE} \cup (IF faults < MaxFaults THEN {TRUE} ELSE {}) :
       LET pr == proc[p]
           i == Head(pr.todo)
           ph == PhaseOf(i)
           r == Execute(IF pr.cmd = "up" THEN ph.up ELSE ph.down, i, cat)
           raised == fault \/ ~r.ok
           failed == [Finish(pr, "DDLError") EXCEPT !.fault = fault]
       IN /\ faults' = IF fault THEN faults + 1 ELSE faults
          /\ IF ph.disc = "tx"
             THEN IF raised
                  THEN /\ audit' = TxExitAudit(audit, pr.txrow, TRUE)
                       /\ cat' = TxExitCat(cat, r.cat, TRUE)
                       /\ proc' = [proc EXCEPT ![p] = failed]
                       /\ UNCHANGED orphans
                  ELSE /\ proc' = [proc EXCEPT ![p] = [pr EXCEPT !.pc = "aend", !.txcat = r.cat]]
                       /\ UNCHANGED <<audit, cat, orphans>>
             ELSE IF raised
                  THEN /\ audit' = IdempotentRaise(audit, pr.aid)
                       /\ orphans' = orphans \cup {pr.aid}
                       /\ proc' = [proc EXCEPT ![p] = failed]
                       /\ UNCHANGED cat
                  ELSE /\ cat' = r.cat
                       /\ proc' = [proc EXCEPT ![p] = [pr EXCEPT !.pc = "aend"]]
                       /\ UNCHANGED <<audit, orphans>>
  /\ UNCHANGED <<repo, disk, nextId, revisions, runs, kills, rewrites>>
  /\ UNCHANGED aside

\* The last statements of Phase.run / Phase.revert: audit_phase_end (or
\* audit_phase_revert_end) and the commit; then the loop body's tail.
AuditEnd(p) ==
  /\ proc[p].pc = "aend"
  /\ LET pr == proc[p]
         i == Head(pr.todo)
         done == [pr EXCEPT !.ran = Append(@, i), !.txrow = None, !.txcat = None,
                            !.snap = None]
         next == IF LeavesRevision(pr.cmd, i) THEN [done EXCEPT !.pc = "dshim"]
                 ELSE Advance(done)
         closed(rows) == IF pr.cmd = "down" THEN audit_phase_revert_end(rows, pr.aid)
                         ELSE audit_phase_end(rows, pr.aid)
     IN IF PhaseOf(i).disc = "tx"
        THEN /\ audit' = TxExitAudit(audit,
                           CHOOSE r \in closed({pr.txrow}) : TRUE, FALSE)
             /\ cat' = TxExitCat(cat, pr.txcat, FALSE)
             /\ proc' = [proc EXCEPT ![p] = next]
        ELSE IF audit_phase_end_hits(audit, pr.aid) = {}
        THEN /\ proc' = [proc EXCEPT ![p] = Finish(pr, "ValueError")]
             /\ UNCHANGED <<audit, cat>>
        ELSE /\ audit' = closed(audit)
             /\ proc' = [proc EXCEPT ![p] = next]
             /\ UNCHANGED cat
  /\ UNCHANGED <<repo, disk, nextId, revisions, runs, kills, faults, rewrites, orphans>>
  /\ UNCHANGED aside

\* db.drop_shim_schema(revision.number)
DropShim(p) ==
  /\ proc[p].pc = "dshim"
  /\ \A q \in Procs \ {p} : proc[q].txcat = None
  /\ LET r == drop_shim_schema(cat, Head(proc[p].todo).revision)
     IN /\ cat' = r.cat
        /\ proc' = [proc EXCEPT ![p] =
                      IF r.ok THEN Advance(proc[p])
                      ELSE Finish(proc[p], "DependentObjects")]
  /\ UNCHANGED <<repo, disk, audit, nextId, revisions, runs, kills, faults, rewrites, orphans>>
  /\ UNCHANGED aside

\* The process dies; the database rolls its open transaction back.
Kill(p) ==
  /\ proc[p].pc # "idle"
  /\ kills < MaxKills
  /\ kills' = kills + 1
  /\ LET pr == proc[p]
         between == /\ pr.pc \in {"ddl", "aend"}
                    /\ PhaseOf(Head(pr.todo)).disc = "idem"
     IN /\ audit' = IF between THEN IdempotentRaise(audit, pr.aid)
                    ELSE TxExitAudit(audit, pr.txrow, TRUE)
        /\ cat' = TxExitCat(cat, pr.txcat, TRUE)
        /\ orphans' = IF between THEN orphans \cup {pr.aid} ELSE orphans
        /\ proc' = [proc EXCEPT ![p] = Finish(pr, "killed")]
  /\ UNCHANGED <<repo, disk, nextId, revisions, runs, faults, rewrites>>
  /\ UNCHANGED aside

\* The operator edits the migration file of revision n between commands.
Rewrite(n) ==
  /\ \A p \in Procs : proc[p].pc = "idle"
  /\ rewrites < MaxRewrites
  /\ rewrites' = rewrites + 1
  /\ runs < MaxRuns
  /\ disk' = [disk EXCEPT ![n].migration_hash = @ + 1]
  /\ UNCHANGED <<repo, audit, nextId, revisions, cat, proc, runs, kills, faults, orphans>>
  /\ UNCHANGED aside

Step(p) ==
  \/ StartUpgrade(p)
  \/ StartDowngrade(p)
  \/ CreateShim(p)
  \/ UpsertRevision(p)
  \/ AuditStart(p)
  \/ RunDDL(p)
  \/ AuditEnd(p)
  \/ DropShim(p)
  \/ Kill(p)

\* Any number of migrators against one database.
Next == \E p \in Procs : Step(p)

Spec == Init /\ [][Next]_vars

\* One migrator, run again and again, and an operator who may edit a
\* revision file between two commands.
NextSeq == Step("A") \/ \E n \in RevisionNumbers : Rewrite(n)

SpecSeq == Init /\ [][NextSeq]_vars

\* ------------------------------------------------- direct calls (tests)

\* Direct calls made in one behaviour.
MaxCalls == 4

\* Database.create_schema: SCHEMA_DDL in one transaction.  CREATE SCHEMA and
\* CREATE TABLE carry no IF NOT EXISTS: on a database that has the schema
\* the first statement raises and the transaction rolls back.
create_schema(inst) ==
  IF inst THEN [outcome |-> "DuplicateSchema", installed |-> inst]
  ELSE [outcome |-> "ok", installed |-> TRUE]

\* One direct call: the method, its argument, the id of the audit row it
\* was given by the sequence (0: none) and how it ended.
Call(op, arg, id, outcome) == [op |-> op, arg |-> arg, id |-> id, outcome |-> outcome]

\* Every phase of the on-disk revisions: Revision.phases() for each.
AllPhases == SeqConcat([n \in 1..Len(RepoRevisions) |-> RevisionPhases(RepoRevisions[n])])

\* Phase.run(db, index), from its first statement to its last, on one
\* connection that nothing interrupts.
PhaseRun(rows, c, id, i) ==
  LET ph == PhaseOf(i)
      row == audit_phase_start(id, i, FALSE)
      r == Execute(ph.up, i, c)
  IN IF ~migration_audit_one_unfinished(rows)
     THEN [outcome |-> "UniqueViolation", audit |-> rows, cat |-> c]
     ELSE IF ph.disc = "tx"
     THEN IF r.ok
          THEN [outcome |-> "ok",
                audit |-> TxExitAudit(rows, CHOOSE x \in audit_phase_end({row}, id) : TRUE, FALSE),
                cat |-> TxExitCat(c, r.cat, FALSE)]
          ELSE [outcome |-> "DDLError",
                audit |-> TxExitAudit(rows, row, TRUE),
                cat |-> TxExitCat(c, r.cat, TRUE)]
     ELSE IF r.ok
          THEN [outcome |-> "ok", audit |-> audit_phase_end(rows \cup {row}, id), cat |-> r.cat]
          ELSE [outcome |-> "DDLError", audit |-> IdempotentRaise(rows \cup {row}, id), cat |-> c]

\* The server's clock runs this far.
MaxClock == 2

\* started_at ... NOT NULL DEFAULT now(): the insert stamps the row with the
\* start time of its transaction.
started_at_default(clk, id) == [clk EXCEPT !.started_at = (id :> clk.now) @@ @]

\* An update that writes the epoch instead of the current time.
set_finished_at_epoch(clk, id) == [clk EXCEPT !.finished_at = (id :> 0) @@ @]

\* SET finished_at = now()
set_finished_at(clk, id) == [clk EXCEPT !.finished_at = (id :> clk.now) @@ @]

\* db.create_schema()
CallCreateSchema ==
  /\ Len(calls) < MaxCalls
  /\ LET r == create_schema(installed)
     IN /\ installed' = r.installed
        /\ calls' = Append(calls, Call("create_schema", None, 0, r.outcome))
  /\ UNCHANGED engine
  /\ UNCHANGED <<globbed, parsed, connections, fixture, clock>>

\* phase.run(db, index)
CallPhaseRun(i) ==
  /\ installed
  /\ Len(calls) < MaxCalls
  /\ LET r == PhaseRun(audit, cat, nextId, i)
     IN /\ audit' = r.audit
        /\ cat' = r.cat
        /\ calls' = Append(calls, Call("phase_run", i, nextId, r.outcome))
        /\ \E t \in clock.now..MaxClock :
             clock' = IF nextId \notin {x.id : x \in r.audit} THEN clock
                      ELSE IF PhaseOf(i).disc = "tx"
                      THEN set_finished_at(started_at_default(clock, nextId), nextId)
                      ELSE IF r.outcome = "ok"
                      THEN set_finished_at([started_at_default(clock, nextId) EXCEPT !.now = t],
                                           nextId)
                      ELSE started_at_default(clock, nextId)
  /\ nextId' = nextId + 1
  /\ UNCHANGED <<repo, disk, revisions, proc, runs, kills, faults, rewrites, orphans, installed>>
  /\ UNCHANGED <<globbed, parsed, connections, fixture>>

\* db.audit_phase_start(index)
CallAuditPhaseStart(i) ==
  /\ installed
  /\ Len(calls) < MaxCalls
  /\ IF migration_audit_one_unfinished(audit)
     THEN /\ audit' = audit \cup {audit_phase_start(nextId, i, FALSE)}
          /\ clock' = started_at_default(clock, nextId)
          /\ calls' = Append(calls, Call("audit_phase_start", i, nextId, "ok"))
     ELSE /\ audit' = audit
          /\ clock' = clock
          /\ calls' = Append(calls, Call("audit_phase_start", i, nextId, "UniqueViolation"))
  /\ nextId' = nextId + 1
  /\ UNCHANGED <<repo, disk, revisions, cat, proc, runs, kills, faults, rewrites, orphans, installed>>
  /\ UNCHANGED <<globbed, parsed, connections, fixture>>

\* db.audit_phase_end(audit), for a row some earlier call returned.
CallAuditPhaseEnd(id) ==
  /\ installed
  /\ Len(calls) < MaxCalls
  /\ \E r \in audit : r.id = id
  /\ IF audit_phase_end_hits(audit, id) = {}
     THEN /\ audit' = audit
          /\ clock' = clock
          /\ calls' = Append(calls, Call("audit_phase_end", id, id, "ValueError"))
     ELSE /\ audit' = audit_phase_end(audit, id)
          /\ clock' = set_finished_at(clock, id)
          /\ calls' = Append(calls, Call("audit_phase_end", id, id, "ok"))
  /\ UNCHANGED <<repo, disk, nextId, revisions, cat, proc, runs, kills, faults, rewrites, orphans, installed>>
  /\ UNCHANGED <<globbed, parsed, connections, fixture>>

\* Time passes on the server between two calls.
Tick ==
  /\ clock.now < MaxClock
  /\ clock' = [clock EXCEPT !.now = @ + 1]
  /\ UNCHANGED engine
  /\ UNCHANGED <<installed, calls, globbed, parsed, connections, fixture>>

\* A fresh database and a test that calls the methods one by one.
InitApi ==
  /\ repo \in RepoIds
  /\ disk = [n \in RevisionNumbers |-> [migration_hash |-> 1, schema_hash |-> 1]]
  /\ audit = {}
  /\ nextId = 1
  /\ revisions = {}
  /\ cat = InitialCatalog(repo)
  /\ proc = [p \in Procs |-> IdleProc]
  /\ runs = 0
  /\ kills = 0
  /\ faults = 0
  /\ rewrites = 0
  /\ orphans = {}
  /\ installed = FALSE
  /\ calls = <<>>
  /\ AsideIdle

NextApi ==
  \/ CallCreateSchema
  \/ \E n \in 1..Len(AllPhases) : CallPhaseRun(AllPhases[n])
  \/ \E n \in 1..Len(AllPhases) : CallAuditPhaseStart(AllPhases[n])
  \/ \E id \in 1..(nextId - 1) : CallAuditPhaseEnd(id)
  \/ Tick

SpecApi == InitApi /\ [][NextApi]_vars

\* ------------------------------------------ loading the revision directory

\* Revision files in the migrations directory.
MaxFiles == 4

Range(s) == {s[n] : n \in 1..Len(s)}

RECURSIVE SeqsUpTo(_, _)
SeqsUpTo(S, n) ==
  IF n = 0 THEN {<<>>}
  ELSE SeqsUpTo(S, n - 1) \cup {Append(s, x) : s \in {t \in SeqsUpTo(S, n - 1) : Len(t) = n - 1}, x \in S}

\* The everything-else of a state in which only the loader runs.
EngineIdle ==
  /\ repo = "basic"
  /\ disk = [n \in RevisionNumbers |-> [migration_hash |-> 1, schema_hash |-> 1]]
  /\ audit = {}
  /\ nextId = 1
  /\ revisions = {}
  /\ cat = InitialCatalog(repo)
  /\ proc = [p \in Procs |-> IdleProc]
  /\ runs = 0
  /\ kills = 0
  /\ faults = 0
  /\ rewrites = 0
  /\ orphans = {}
  /\ installed = TRUE
  /\ calls = <<>>

\* list(range(1, n + 1))
range1(n) == [i \in 1..n |-> i]

\* The loop body of parse_revlist: revisions[rev.number] = rev.  A dict keeps
\* its keys in the order of their first insertion.
ParseFile ==
  /\ parsed.status = "loading"
  /\ parsed.pos < Len(globbed)
  /\ LET number == globbed[parsed.pos + 1]
     IN parsed' = [parsed EXCEPT !.pos = @ + 1,
                                 !.keys = IF number \in Range(@) THEN @ ELSE Append(@, number)]
  /\ UNCHANGED <<engine, installed, calls, globbed, connections, fixture, clock>>

\* assert list(revisions.keys()) == list(range(1, len(revisions) + 1))
AssertContiguous ==
  /\ parsed.status = "loading"
  /\ parsed.pos = Len(globbed)
  /\ parsed' = [parsed EXCEPT !.status = IF parsed.keys = range1(Len(parsed.keys))
                                         THEN "ok" ELSE "AssertionError"]
  /\ UNCHANGED <<engine, installed, calls, globbed, connections, fixture, clock>>

\* glob.glob returns the directory's *.yml files in an order of the file
\* system's choosing.
InitLoad ==
  /\ EngineIdle
  /\ globbed \in SeqsUpTo(1..MaxFiles, MaxFiles)
  /\ parsed = Unloaded
  /\ connections = {}
  /\ fixture = None
  /\ clock = Unstamped

NextLoad == ParseFile \/ AssertContiguous

SpecLoad == InitLoad /\ [][NextLoad]_vars

\* ------------------------------------------- the connection incantation

\* Backend process ids, and the start times a backend with a pid can have.
Pids == {1, 2, 3}
Starts == {1, 2}

\* bytes.hex() of a hash, as two hexadecimal digits, and the decode(..., 'hex')
\* of the statement.
hex(h) == <<h \div 16, h % 16>>
decode(digits) == digits[1] * 16 + digits[2]

\* An incantation whose insert gives way to the row that is there.
incantation_do_nothing(table, pid, rev, start) ==
  IF \E x \in table : x.pid = pid THEN table
  ELSE table \cup {[pid |-> pid, revision |-> rev.number,
                    schema_hash |-> decode(hex(rev.schema_hash)), backend_start |-> start]}

\* format_incantation(rev), executed by the backend pid that started at
\* start: INSERT INTO connections ... ON CONFLICT (pid) DO UPDATE SET
\* revision, schema_hash, backend_start.
incantation(table, pid, rev, start) ==
  {x \in table : x.pid # pid}
    \cup {[pid |-> pid, revision |-> rev.number,
           schema_hash |-> decode(hex(rev.schema_hash)), backend_start |-> start]}

\* An application backend executes the incantation of revision n.
Incant(pid, n, start) ==
  /\ Len(calls) < MaxCalls
  /\ connections' = incantation(connections, pid, RepoRevisions[n], start)
  /\ calls' = Append(calls, Call("incantation", <<pid, n>>, 0, "ok"))
  /\ UNCHANGED <<engine, installed, globbed, parsed, fixture, clock>>

\* A set-up database no application has connected to; the revisions'
\* schema files are whatever they are.
InitConn ==
  /\ repo = "basic"
  /\ disk \in [RevisionNumbers -> [migration_hash : {1}, schema_hash : {17, 18}]]
  /\ audit = {}
  /\ nextId = 1
  /\ revisions = {}
  /\ cat = InitialCatalog(repo)
  /\ proc = [p \in Procs |-> IdleProc]
  /\ runs = 0
  /\ kills = 0
  /\ faults = 0
  /\ rewrites = 0
  /\ orphans = {}
  /\ installed = TRUE
  /\ calls = <<>>
  /\ AsideIdle

NextConn == \E pid \in Pids, n \in RevisionNumbers, start \in Starts : Incant(pid, n, start)

SpecConn == InitConn /\ [][NextConn]_vars

\* ------------------------------------------------------ the diff engine

\* The objects a snapshot can hold: a table, a sequence, a view, an index
\* and a check constraint (the last two on a table the snapshots do not
\* touch), and a second table, index and check constraint that can declare
\* the first one's name as their old name; in dependency order.
KeyOrder ==
  <<<<"table", "t">>, <<"table", "t2">>, <<"sequence", "s">>, <<"view", "v">>,
    <<"index", "i">>, <<"index", "i2">>, <<"check", "c">>, <<"check", "c2">>>>

ObjKeys == Range(KeyOrder)

\* The keys of the snapshots that rename nothing.
PlainKeys ==
  {<<"table", "t">>, <<"sequence", "s">>, <<"view", "v">>, <<"index", "i">>, <<"check", "c">>}

\* One attribute of an object's definition; a table's attributes are its
\* columns.
Attr(name, type) == [name |-> name, type |-> type]

\* The definitions an object of a kind can have.
DefsOf(kind) ==
  CASE kind = "table" ->
         {{Attr("a", "int")}, {Attr("a", "text")}, {Attr("b", "int")},
          {Attr("a", "int"), Attr("b", "int")}}
    [] kind = "sequence" -> {{Attr("increment", "1")}, {Attr("increment", "2")}}
    [] kind = "view" -> {{Attr("query", "q1")}, {Attr("query", "q2")}}
    [] kind = "index" -> {{Attr("expr", "x")}}
    [] kind = "check" -> {{Attr("expr", "y")}}

\* Database.to_map(): each key's definition, {} for an object that is not
\* there.
Snapshots ==
  {[k \in ObjKeys |-> IF k \in PlainKeys THEN f[k] ELSE {}] :
     f \in {g \in [PlainKeys -> {{}} \cup UNION {DefsOf(k[1]) : k \in PlainKeys}] :
              \A k \in PlainKeys : g[k] = {} \/ g[k] \in DefsOf(k[1])}}

\* The kinds the renaming snapshots are about, each with its first and its
\* second name.
RenameKinds == {"table", "index", "check"}
FirstName(kind) == CASE kind = "table" -> "t" [] kind = "index" -> "i" [] kind = "check" -> "c"
OneDef(kind) == IF kind = "table" THEN {Attr("a", "int")} ELSE CHOOSE d \in DefsOf(kind) : TRUE

\* A snapshot that holds, of each kind, nothing ("none"), the object under
\* its first name ("old"), an object under the second name ("new"), or the
\* object under the second name with oldname set to the first ("renamed").
RenameSnapshot(f) ==
  [k \in ObjKeys |->
     IF k[1] \notin RenameKinds THEN {}
     ELSE IF k[2] = FirstName(k[1]) THEN (IF f[k[1]] = "old" THEN OneDef(k[1]) ELSE {})
     ELSE IF f[k[1]] = "new" THEN OneDef(k[1])
     ELSE IF f[k[1]] = "renamed" THEN OneDef(k[1]) \cup {Attr("oldname", FirstName(k[1]))}
     ELSE {}]

NamesOf(def) == {a.name : a \in def}

\* getattr(new, 'oldname', None) and the key it stands for.
oldkeys(k, def) == {<<k[1], a.type>> : a \in {x \in def : x.name = "oldname"}}

\* The old objects marked _nodrop by the first loop: those a new object
\* without a counterpart of its own key names as its oldname.
nodrop(old, new) ==
  UNION {oldkeys(k, new[k]) : k \in {j \in ObjKeys : new[j] # {} /\ old[j] = {}}}

\* old = d[oldkey] raises KeyError when the old snapshot has no such object.
bad_oldname(old, new) == \E k \in nodrop(old, new) : old[k] = {}

\* What a statement list does to the catalog.
Effect(op, key, def) == [op |-> op, key |-> key, def |-> def]
NoEffect == Effect("none", <<"-", "-">>, {})

\* ChangeHolder: the change variant and its two directions.
Holder(kind, up, down) == [kind |-> kind, up |-> up, down |-> down]

\* alter_table_add(old, new) + alter_table_modify(old, new): the columns of
\* new that old lacks are added, the columns both have take new's type.
alter_table_add_modify(olddef, newdef) ==
  newdef \cup {a \in olddef : a.name \notin NamesOf(newdef)}

\* Table.alter_drop_columns(new): the columns new lacks are dropped.
alter_drop_columns(olddef, newdef) == {a \in olddef : a.name \in NamesOf(newdef)}

\* make_change_check(changes.AddCheckConstraint, obj)
AddCheckConstraint(key, def) ==
  Holder("add_constraint", Effect("create", key, def), Effect("drop", key, {}))

\* make_change_check(changes.DropCheckConstraint, obj)
DropCheckConstraint(key, def) ==
  Holder("drop_constraint", Effect("drop", key, {}), Effect("create", key, def))

\* The first loop of diff_map_changes, for one object of the new snapshot.
PreFor(k, old, new) ==
  IF new[k] = {} THEN <<>>
  ELSE IF old[k] # {}
  THEN IF k[1] = "table"
       THEN LET same == alter_table_add_modify(old[k], new[k]) = old[k]
            IN <<Holder("run_ddl",
                        IF same THEN NoEffect ELSE Effect("add_modify_columns", k, new[k]),
                        IF same THEN NoEffect ELSE Effect("modify_drop_columns", k, old[k]))>>
       ELSE IF k[1] = "sequence" THEN <<>>
       ELSE <<Holder("run_ddl",
                     IF old[k] = new[k] THEN NoEffect ELSE Effect("alter", k, new[k]),
                     IF old[k] = new[k] THEN NoEffect ELSE Effect("alter", k, old[k]))>>
  ELSE IF k[1] = "index"
       THEN <<Holder("create_index", Effect("create", k, new[k]), Effect("drop", k, {}))>>
       ELSE IF k[1] = "check" THEN <<AddCheckConstraint(k, new[k])>>
       ELSE <<Holder("run_ddl", Effect("create", k, new[k]), Effect("drop", k, {}))>>

\* The second loop of diff_map_changes, for one object of the old snapshot.
PostFor(k, old, new) ==
  IF old[k] = {} THEN <<>>
  ELSE IF new[k] # {}
  THEN IF k[1] = "table"
       THEN LET same == alter_drop_columns(old[k], new[k]) = old[k]
            IN <<Holder("run_ddl",
                        IF same THEN NoEffect ELSE Effect("drop_columns", k, new[k]),
                        IF same THEN NoEffect ELSE Effect("add_columns", k, old[k]))>>
       ELSE <<>>
  ELSE IF k[1] = "check" THEN <<DropCheckConstraint(k, old[k])>>
       ELSE IF k[1] = "index"
       THEN <<Holder("drop_index", Effect("drop", k, {}), Effect("create", k, old[k]))>>
       ELSE IF k \notin nodrop(old, new)
       THEN <<Holder("run_ddl", Effect("drop", k, {}), Effect("create", k, old[k]))>>
       ELSE <<>>

\* diff_map_changes: the new snapshot's objects in dependency order, then
\* the old snapshot's in reverse dependency order.
diff_map_changes(old, new) ==
  [pre_deploy |-> SeqConcat([n \in 1..Len(KeyOrder) |-> PreFor(KeyOrder[n], old, new)]),
   post_deploy |->
     SeqConcat([n \in 1..Len(KeyOrder) |-> PostFor(Reverse(KeyOrder)[n], old, new)])]

\* A flattening that elides nothing.
flatten_holders_keep_empty(holders) == holders

\* flatten_holders: a DDLStep whose up and down are both empty is left out.
flatten_holders(holders) ==
  SelectSeq(holders, LAMBDA h : ~(h.kind = "run_ddl" /\ h.up = NoEffect /\ h.down = NoEffect))

\* A diff that emits everything, drops included, as pre-deploy changes.
diff_all_pre_deploy(old, new) ==
  [pre_deploy |-> flatten_holders(diff_map_changes(old, new).pre_deploy
                                  \o diff_map_changes(old, new).post_deploy),
   post_deploy |-> <<>>]

\* diff.diff
diff(old, new) ==
  [pre_deploy |-> flatten_holders(diff_map_changes(old, new).pre_deploy),
   post_deploy |-> flatten_holders(diff_map_changes(old, new).post_deploy)]

\* The up direction of one change, executed.
Apply(eff, S) ==
  CASE eff.op = "none" -> S
    [] eff.op \in {"create", "alter"} -> [S EXCEPT ![eff.key] = eff.def]
    [] eff.op = "drop" -> [S EXCEPT ![eff.key] = {}]
    [] eff.op = "add_modify_columns" ->
         [S EXCEPT ![eff.key] = alter_table_add_modify(@, eff.def)]
    [] eff.op = "drop_columns" -> [S EXCEPT ![eff.key] = alter_drop_columns(@, eff.def)]

RECURSIVE ApplyAll(_, _)
ApplyAll(holders, S) ==
  IF holders = <<>> THEN S ELSE ApplyAll(Tail(holders), Apply(Head(holders).up, S))

\* DiffFixture.run_codegen: the migration is generated from the two
\* snapshots.
RunCodegen ==
  /\ fixture.stage = "new"
  /\ fixture' = IF bad_oldname(fixture.before, fixture.after)
                THEN [fixture EXCEPT !.stage = "KeyError"]
                ELSE [fixture EXCEPT !.stage = "generated",
                                     !.holders = diff_map_changes(fixture.before, fixture.after),
                                     !.migration = diff(fixture.before, fixture.after)]
  /\ UNCHANGED <<engine, installed, calls, globbed, parsed, connections, clock>>

\* DiffFixture.run_execution, the pre-deploy phases run on a database that
\* holds the before snapshot.
RunPreDeploy ==
  /\ fixture.stage = "generated"
  /\ fixture' = [fixture EXCEPT !.stage = "deploying",
                                !.live = ApplyAll(fixture.migration.pre_deploy, fixture.before)]
  /\ UNCHANGED <<engine, installed, calls, globbed, parsed, connections, clock>>

\* ... and the post-deploy phases after them.
RunPostDeploy ==
  /\ fixture.stage = "deploying"
  /\ fixture' = [fixture EXCEPT !.stage = "done",
                                !.live = ApplyAll(fixture.migration.post_deploy, fixture.live)]
  /\ UNCHANGED <<engine, installed, calls, globbed, parsed, connections, clock>>

\* Any two snapshots.
InitDiff ==
  /\ EngineIdle
  /\ globbed = <<>>
  /\ parsed = Unloaded
  /\ connections = {}
  /\ clock = Unstamped
  /\ \E before \in Snapshots, after \in Snapshots :
       fixture = [before |-> before, after |-> after,
                  holders |-> [pre_deploy |-> <<>>, post_deploy |-> <<>>],
                  migration |-> [pre_deploy |-> <<>>, post_deploy |-> <<>>],
                  live |-> before, stage |-> "new"]

NextDiff == RunCodegen \/ RunPreDeploy \/ RunPostDeploy

SpecDiff == InitDiff /\ [][NextDiff]_vars

\* Two snapshots of which the second may rename objects of the first.
InitRename ==
  /\ EngineIdle
  /\ globbed = <<>>
  /\ parsed = Unloaded
  /\ connections = {}
  /\ clock = Unstamped
  /\ \E f \in [RenameKinds -> {"none", "old"}],
        g \in [RenameKinds -> {"none", "old", "new", "renamed"}] :
       fixture = [before |-> RenameSnapshot(f), after |-> RenameSnapshot(g),
                  holders |-> [pre_deploy |-> <<>>, post_deploy |-> <<>>],
                  migration |-> [pre_deploy |-> <<>>, post_deploy |-> <<>>],
                  live |-> RenameSnapshot(f), stage |-> "new"]

SpecRename == InitRename /\ [][NextDiff]_vars

\* ------------------------------------------------------------ properties

\* Every row of migration_audit, committed or still inside an open
\* transaction.
AllRows == audit \cup {proc[p].txrow : p \in {q \in Procs : proc[q].txrow # None}}

Unfinished(rows) == {r \in rows : ~r.finished}

\* C1: in every reachable state, whatever the interleaving of the migrators
\* and wherever they are killed, at most one row of migration_audit has
\* started_at set and finished_at NULL.
C1_AtMostOneUnfinished == Cardinality(Unfinished(AllRows)) <= 1

\* One migrator holds the unfinished row and is running its DDL; another
\* one tried to start a phase meanwhile and was refused.
C1_Witness ==
  \E p, q \in Procs :
    /\ p # q
    /\ proc[p].pc = "ddl"
    /\ \E r \in audit : r.id = proc[p].aid /\ ~r.finished
    /\ proc[q].err = "UniqueViolation"

\* Process p is inside a transactional direction: its audit row is pending.
InTransactional(p) ==
  /\ proc[p].pc \in {"ddl", "aend"}
  /\ PhaseOf(Head(proc[p].todo)).disc = "tx"

\* C2: when a transactional direction raises while executing its DDL (or
\* the process dies inside it), the transaction rolls back: no audit row of
\* the attempt is visible, the catalog is what it was before the statement,
\* and the audit log is exactly what it was before the attempt.
C2_TransactionalRollback ==
  [][\A p \in Procs :
       (InTransactional(p) /\ proc'[p].err \in {"DDLError", "killed"})
       => /\ audit' = proc[p].snap.audit
          /\ \A r \in audit' : r.id # proc[p].aid
          /\ cat' = cat]_vars

\* A transactional direction whose statement took effect and then failed:
\* the attempt had an audit id, and the log shows nothing of it.
C2_Witness ==
  \E p \in Procs :
    /\ proc[p].err = "DDLError"
    /\ proc[p].fault
    /\ proc[p].failpc = "ddl"
    /\ PhaseOf(Head(proc[p].todo)).disc = "tx"
    /\ Execute(IF proc[p].cmd = "up" THEN PhaseOf(Head(proc[p].todo)).up
               ELSE PhaseOf(Head(proc[p].todo)).down,
               Head(proc[p].todo), proc[p].snap.cat).cat # proc[p].snap.cat
    /\ proc[p].aid > 0
    /\ audit = proc[p].snap.audit
    /\ cat = proc[p].snap.cat

\* C3: when the DDL of an idempotent direction fails, or the process is
\* killed, between the two audit transactions, the attempt's row stays
\* visible with finished_at NULL, and nothing later modifies it.
C3_IdempotentRowRemains ==
  \A id \in orphans : \E r \in audit : r.id = id /\ ~r.finished

\* An idempotent attempt was cut short after its DDL had run, and a later
\* command has already looked at the table.
C3_Witness ==
  \E p, q \in Procs :
    /\ proc[p].failpc = "aend"
    /\ proc[p].err = "killed"
    /\ proc[p].aid \in orphans
    /\ proc[q].seen # None
    /\ proc[q].seen.id = proc[p].aid

\* No kill, no injected error and no edited file so far.
Undisturbed == kills = 0 /\ faults = 0 /\ rewrites = 0

\* C4: after a kill between an audit insert and its finished_at update, a
\* re-run of upgrade is not refused: it picks the interrupted phase up again.
C4_RerunResumes ==
  \A p \in Procs :
    (proc[p].cmd = "up" /\ faults = 0 /\ proc[p].seen # None /\ ~proc[p].seen.finished)
    => proc[p].err # "AssertionError"

\* The re-run that found the interrupted row.
C4_Witness ==
  \E p \in Procs :
    /\ proc[p].cmd = "up"
    /\ proc[p].seen # None
    /\ proc[p].seen.id \in orphans
    /\ kills = 1
    /\ faults = 0

\* The slice upgrade is to run, given the latest audit row it found.
UpgradeSlice(last) ==
  IF last = None THEN PhaseSlice(None, FALSE, None, FALSE)
  ELSE PhaseSlice(last.index, last.is_revert, None, FALSE)

IsPrefix(s, t) == Len(s) <= Len(t) /\ \A n \in 1..Len(s) : s[n] = t[n]

\* C5: upgrade runs, in ascending order, exactly the phases of the on-disk
\* plan its slice selects: all of them on an empty log, those strictly after
\* last.index after a forward row, those from last.index on after a revert
\* row.  (While it runs it has run a prefix of them; when nothing disturbs
\* it, it ends having run them all.)
C5_UpgradeRunsSlice ==
  \A p \in Procs :
    (proc[p].cmd = "up" /\ Undisturbed /\ (proc[p].seen = None \/ proc[p].seen.finished))
    => LET want == get_phases(RepoRevisions, UpgradeSlice(proc[p].seen))
       IN /\ IsPrefix(proc[p].ran, want)
          /\ proc[p].pc = "idle" => proc[p].ran = want

\* An upgrade that found a revert row of a revision's first phase and so had
\* that very phase to run again.
C5_Witness ==
  \E p \in Procs :
    /\ proc[p].cmd = "up"
    /\ proc[p].pc = "idle"
    /\ Undisturbed
    /\ proc[p].seen # None
    /\ proc[p].seen.is_revert
    /\ proc[p].seen.index = first_index(RevOf(proc[p].seen.index))

\* The latest audit row says the whole on-disk plan has been run.
FullyUpgraded(last) ==
  LET all == get_phases(RepoRevisions, PhaseSlice(None, FALSE, None, FALSE))
  IN /\ last # None
     /\ ~last.is_revert
     /\ last.finished
     /\ last.index = all[Len(all)]

\* The phases of the on-disk revisions numbered above T.
PhasesAbove(T) ==
  SelectSeq(get_phases(RepoRevisions, PhaseSlice(None, FALSE, None, FALSE)),
            LAMBDA i : i.revision > T)

\* C6: after upgrade has applied revisions 1..N, downgrade(T) with T < N
\* reverts every phase of revisions T+1..N once, in descending order, and no
\* phase of a revision numbered T or lower.
C6_DowngradeRevertsAbove ==
  \A p \in Procs :
    (/\ proc[p].cmd = "down"
     /\ proc[p].pc = "idle"
     /\ proc[p].target < Cardinality(RevisionNumbers)
     /\ FullyUpgraded(proc[p].seen)
     /\ Undisturbed)
    => proc[p].ran = Reverse(PhasesAbove(proc[p].target))

\* A downgrade of a fully upgraded database that has come to its end.
C6_Witness ==
  \E p \in Procs :
    /\ proc[p].cmd = "down"
    /\ proc[p].pc = "idle"
    /\ proc[p].target < Cardinality(RevisionNumbers)
    /\ FullyUpgraded(proc[p].seen)
    /\ Undisturbed
    /\ proc[p].ran # <<>>

\* C7: running every phase forward and then reverting them all (upgrade
\* followed by a downgrade to revision 0) leaves the public catalog equal to
\* the original one.
C7_RoundTripRestoresCatalog ==
  \A p \in Procs :
    (/\ proc[p].cmd = "down"
     /\ proc[p].target = 0
     /\ proc[p].pc = "idle"
     /\ proc[p].err = "ok"
     /\ Undisturbed)
    => cat.pub = InitialCatalog(repo).pub

\* A downgrade to revision 0 that returned normally after reverting phases.
C7_Witness ==
  \E p \in Procs :
    /\ proc[p].cmd = "down"
    /\ proc[p].target = 0
    /\ proc[p].pc = "idle"
    /\ proc[p].err = "ok"
    /\ proc[p].ran # <<>>
    /\ Undisturbed

\* Process p takes the step that starts a phase: its insert into
\* migration_audit is attempted.
StartsPhase(p) ==
  /\ proc[p].pc = "astart"
  /\ proc'[p].pc # "astart"
  /\ proc'[p].err # "killed"
  /\ ~(proc[p].cmd = "down" /\ get_audit(audit, Head(proc[p].todo), FALSE) = None)

\* Process p is between the two audit transactions of an idempotent phase.
HoldsUnfinished(p) ==
  /\ proc[p].pc \in {"ddl", "aend"}
  /\ PhaseOf(Head(proc[p].todo)).disc = "idem"

\* C8: while a migrator holds a committed unfinished audit row, the start
\* of a phase by another migrator fails with a unique violation and inserts
\* no row; the holder is not disturbed (its row stays as it wrote it, and its
\* closing update finds it); and once no row is unfinished, a migrator that
\* starts a phase succeeds.
C8_SecondMigratorRefused ==
  /\ [](\A p \in Procs :
          HoldsUnfinished(p) => \E r \in audit : r.id = proc[p].aid /\ ~r.finished)
  /\ [][\A p \in Procs :
          /\ (StartsPhase(p) /\ Unfinished(audit) # {})
             => /\ proc'[p].err = "UniqueViolation"
                /\ audit' = audit
          /\ (StartsPhase(p) /\ Unfinished(audit) = {})
             => /\ proc'[p].pc = "ddl"
                /\ proc'[p].aid \in {r.id : r \in AllRows'}
          /\ (HoldsUnfinished(p) /\ proc[p].pc = "aend" /\ proc'[p].pc # "aend"
              /\ proc'[p].err # "killed")
             => /\ proc'[p].err # "ValueError"
                /\ \E r \in audit' : r.id = proc[p].aid /\ r.finished]_vars

\* With nothing killed and nothing injected: a migrator whose previous
\* command was refused has been run again and has started a phase, after the
\* other one finished the row it held.
C8_Witness ==
  \E p, q \in Procs :
    /\ p # q
    /\ kills = 0
    /\ faults = 0
    /\ proc[q].prev = "UniqueViolation"
    /\ proc[q].pc = "ddl"
    /\ proc[p].ran # <<>>
    /\ \E r \in audit : r.finished /\ r.index = proc[p].ran[Len(proc[p].ran)]

\* C9: every revision with a row in migration_audit has a non-deleted row
\* in the revisions table carrying the on-disk hash triple, and after a
\* complete upgrade every on-disk revision that has phases is recorded
\* exactly once.
C9_AuditedRevisionsRecorded ==
  rewrites = 0 =>
    /\ \A r \in audit :
         \E x \in revisions :
           /\ ~x.is_deleted
           /\ x.revision = r.index.revision
           /\ x.migration_hash = disk[x.revision].migration_hash
           /\ x.schema_hash = disk[x.revision].schema_hash
    /\ \A p \in Procs :
         (proc[p].cmd = "up" /\ proc[p].pc = "idle" /\ proc[p].err = "ok")
         => \A n \in RevisionNumbers :
              RevisionPhases(RepoRevisions[n]) # <<>>
              => Cardinality({x \in revisions : x.revision = n /\ ~x.is_deleted}) = 1

\* A revision whose first phase is a post-deploy one has been audited.
C9_Witness ==
  \E r \in audit :
    /\ ~r.index.pre_deploy
    /\ Migration(repo, r.index.revision).pre_deploy = <<>>
    /\ rewrites = 0

\* C10: a command started while an applied revision differs on disk from
\* its row in the revisions table starts no phase: it writes no audit row
\* and runs no DDL.
C10_ConflictStopsRun ==
  \A p \in Procs :
    proc[p].stale => (proc[p].aid = 0 /\ proc[p].ran = <<>> /\ proc[p].pc \notin {"ddl", "aend"})

\* A command that started in that situation.
C10_Witness ==
  \E p \in Procs : proc[p].stale /\ proc[p].cmd \in {"up", "down"}

\* Process p takes the step that calls upsert_revision.
Upserts(p) ==
  /\ proc[p].pc = "upsert"
  /\ proc'[p].pc # "upsert"
  /\ proc'[p].err # "killed"

\* The revisions table holds the very triple of rev.
Stored(rev) ==
  \E x \in revisions : /\ x.revision = rev.number
                       /\ x.migration_hash = rev.migration_hash
                       /\ x.schema_hash = rev.schema_hash

\* The revisions table holds a non-deleted row of rev's number with another
\* migration_hash or schema_hash.
StoredDifferently(rev) ==
  \E x \in revisions : /\ x.revision = rev.number
                       /\ ~x.is_deleted
                       /\ \/ x.migration_hash # rev.migration_hash
                          \/ x.schema_hash # rev.schema_hash

\* C11: upsert_revision(rev), called while a row with the same (revision,
\* migration_hash, schema_hash) is stored, succeeds (the command goes on to
\* its phase) and leaves the revisions table unchanged.
C11_UpsertStoredSucceeds ==
  [][\A p \in Procs :
       (Upserts(p) /\ Stored(RevOf(Head(proc[p].todo))))
       => /\ proc'[p].pc = "astart"
          /\ revisions' = revisions]_vars

\* An upgrade that, after a downgrade reverted a revision's first phase, is
\* about to upsert the revision it recorded before.
C11_Witness ==
  \E p \in Procs :
    /\ proc[p].pc = "upsert"
    /\ Stored(RevOf(Head(proc[p].todo)))
    /\ Undisturbed

\* C12: upsert_revision(rev), called while a non-deleted row of the same
\* number with a different migration_hash or schema_hash is stored, raises
\* and leaves the revisions table unchanged; at most one non-deleted row per
\* revision number ever exists.
C12_UpsertConflictRaises ==
  /\ [](\A n \in RevisionNumbers :
          Cardinality({x \in revisions : x.revision = n /\ ~x.is_deleted}) <= 1)
  /\ [][\A p \in Procs :
          (Upserts(p) /\ StoredDifferently(RevOf(Head(proc[p].todo))))
          => /\ proc'[p].pc = "idle"
             /\ proc'[p].err = "UniqueViolation"
             /\ revisions' = revisions]_vars

\* An upgrade that met the recorded row of a revision whose file was edited
\* since, and ended on the unique violation.
C12_Witness ==
  \E p \in Procs :
    /\ proc[p].failpc = "upsert"
    /\ proc[p].err = "UniqueViolation"
    /\ rewrites = 1
    /\ \E x \in revisions :
         /\ x.revision = Head(proc[p].todo).revision
         /\ x.migration_hash # disk[x.revision].migration_hash

\* Process p is inside a phase: between the start of its audit insert and
\* its closing update.
InPhase(p) == proc[p].pc \in {"astart", "ddl", "aend"}

\* C13: in a failure-free upgrade or downgrade the shim schema of a
\* revision exists exactly while the phases of that revision run: it is
\* created right before the first of them and dropped right after the last,
\* so during a phase of revision r the shim schemas are {r}, and none is
\* left when the command has returned.
C13_ShimBracketsRevision ==
  Undisturbed =>
    \A p \in Procs :
      /\ InPhase(p) => cat.shims = {Head(proc[p].todo).revision}
      /\ (proc[p].pc = "idle" /\ proc[p].err = "ok" /\ proc[p].ran # <<>>) => cat.shims = {}

\* A phase of a revision without pre-deploy changes is running.
C13_Witness ==
  \E p \in Procs :
    /\ Undisturbed
    /\ proc[p].pc = "ddl"
    /\ proc[p].cmd = "up"
    /\ Migration(repo, Head(proc[p].todo).revision).pre_deploy = <<>>

\* The audit rows of the phase at (revision n, pre-deploy change k, phase ph).
RowsOf(n, k, ph) ==
  {r \in audit : /\ r.index.revision = n
                 /\ r.index.pre_deploy
                 /\ r.index.change = k
                 /\ r.index.phase = ph}

\* The log says that phase is applied: its latest row is a finished forward one.
Applied(n, k, ph) ==
  /\ RowsOf(n, k, ph) # {}
  /\ ~Latest(RowsOf(n, k, ph)).is_revert
  /\ Latest(RowsOf(n, k, ph)).finished

\* Revision n begins the rename of a table at pre-deploy change k and
\* revision n + 1 finishes it at pre-deploy change j.
RenamePair(n, k, j) ==
  /\ n \in RevisionNumbers
  /\ n + 1 \in RevisionNumbers
  /\ k \in 1..Len(Migration(repo, n).pre_deploy)
  /\ j \in 1..Len(Migration(repo, n + 1).pre_deploy)
  /\ Migration(repo, n).pre_deploy[k].kind = "begin_rename"
  /\ Migration(repo, n + 1).pre_deploy[j].kind = "finish_rename"
  /\ Migration(repo, n).pre_deploy[k].name = Migration(repo, n + 1).pre_deploy[j].name

\* The view of a table in the shim schema of revision n shows every renamed
\* column under its new name.
ShimViewExposesNew(n, table) ==
  \E v \in cat.views :
    /\ v.schema = n
    /\ v.table = table
    /\ \A old \in DOMAIN Renames : Renames[old] \in v.cols

DropsRenameView(p) ==
  /\ proc[p].pc = "ddl"
  /\ proc[p].cmd = "up"
  /\ PhaseOf(Head(proc[p].todo)).up.op = "drop_rename_view"
  /\ proc'[p].pc # "ddl"
  /\ proc'[p].err # "killed"
  /\ ~proc'[p].fault

\* C15: the second phase of FinishRename, in revision N+1, drops the view
\* that BeginRename created in the shim schema of revision N: the statement
\* succeeds, and with it no rename view is left in any shim schema while the
\* public columns carry their new names.
C15_FinishDropsBeginView ==
  [][\A p \in Procs :
       DropsRenameView(p)
       => /\ proc'[p].pc = "aend"
          /\ proc'[p].txcat.views = {}
          /\ \A old \in DOMAIN Renames : Has(proc'[p].txcat, "column", Renames[old])]_vars

\* FinishRename has renamed the columns, the view of BeginRename is there,
\* and the drop is about to run.
C15_Witness ==
  \E p \in Procs :
    /\ proc[p].pc = "ddl"
    /\ proc[p].cmd = "up"
    /\ PhaseOf(Head(proc[p].todo)).up.op = "drop_rename_view"
    /\ Applied(Head(proc[p].todo).revision, Head(proc[p].todo).change, 0)
    /\ ShimViewExposesNew(Head(proc[p].todo).revision - 1,
                          PhaseOf(Head(proc[p].todo)).up.name)

\* Process p takes the step that executes the down direction of a
\* RenameDropViewPhase, and nothing but the statement itself can fail.
RevertsDropView(p) ==
  /\ proc[p].pc = "ddl"
  /\ proc[p].cmd = "down"
  /\ PhaseOf(Head(proc[p].todo)).down.op = "create_rename_view"
  /\ proc'[p].pc # "ddl"
  /\ proc'[p].err # "killed"
  /\ ~proc'[p].fault

\* C16: reverting FinishRename succeeds and restores what held after
\* BeginRename: the down direction of its second phase, run against the
\* renamed public columns, re-creates the rename view, and the down direction
\* of its first phase then gives the columns their old names back.
C16_RevertFinishRename ==
  [][\A p \in Procs :
       (RevertsDropView(p) /\ \A old \in DOMAIN Renames : Has(cat, "column", Renames[old]))
       => /\ proc'[p].pc = "aend"
          /\ \E v \in proc'[p].txcat.views :
               /\ v.schema = Head(proc[p].todo).revision
               /\ v.table = PhaseOf(Head(proc[p].todo)).down.name]_vars

\* A downgrade, with nothing killed or injected, is about to revert the
\* second phase of a FinishRename that an upgrade had run.
C16_Witness ==
  \E p \in Procs :
    /\ Undisturbed
    /\ proc[p].pc = "ddl"
    /\ proc[p].cmd = "down"
    /\ PhaseOf(Head(proc[p].todo)).down.op = "create_rename_view"
    /\ \A old \in DOMAIN Renames : Has(cat, "column", Renames[old])
    /\ cat.views = {}

\* Process p takes the step that executes a CreateRenameView (the forward
\* direction of BeginRename's phase or the down direction of FinishRename's
\* second phase) while some rename key is not a column of public.<table>.
CreatesViewWithoutColumn(p) ==
  LET ph == PhaseOf(Head(proc[p].todo))
      sql == IF proc[p].cmd = "up" THEN ph.up ELSE ph.down
  IN /\ proc[p].pc = "ddl"
     /\ sql.op = "create_rename_view"
     /\ (DOMAIN Renames) \ ColumnsOf(cat, sql.name) # {}
     /\ proc'[p].pc # "ddl"
     /\ proc'[p].err # "killed"

\* C17: CreateRenameView fails whenever some rename key is not a column of
\* public.<table>; no view is created and no audit row of the phase is
\* visible afterwards.
C17_MissingColumnFails ==
  [][\A p \in Procs :
       CreatesViewWithoutColumn(p)
       => /\ proc'[p].pc = "idle"
          /\ proc'[p].err = "DDLError"
          /\ cat' = cat
          /\ audit' = audit
          /\ \A r \in audit' : r.id # proc[p].aid]_vars

\* A BeginRename whose table lacks the column to rename has failed on the
\* statement itself; there is no view and no row of the attempt.
C17_Witness ==
  \E p \in Procs :
    /\ proc[p].err = "DDLError"
    /\ ~proc[p].fault
    /\ proc[p].failpc = "ddl"
    /\ proc[p].cmd = "up"
    /\ PhaseOf(Head(proc[p].todo)).up.op = "create_rename_view"
    /\ (DOMAIN Renames) \ ColumnsOf(cat, PhaseOf(Head(proc[p].todo)).up.name) # {}
    /\ cat.views = {}
    /\ proc[p].aid > 0
    /\ \A r \in audit : r.id # proc[p].aid


\* Process p takes the step that inserts a phase's audit row.
InsertsAuditRow(p) ==
  /\ proc[p].pc = "astart"
  /\ proc'[p].pc = "ddl"

\* The command of process p has raised.
Failed(p) == proc[p].err \notin {"none", "running", "ok"}

\* C18: within one run, a phase's audit row is inserted only when the row
\* of the phase the run executed before it is committed with finished_at
\* set; and a run that has raised is over: it holds no position in the loop,
\* and the only step its process can take next is to begin another command.
C18_PhasesStrictlySequential ==
  /\ [][\A p \in Procs :
          (InsertsAuditRow(p) /\ proc[p].ran # <<>>)
          => \E r \in audit :
               /\ r.id = proc[p].aid
               /\ r.index = proc[p].ran[Len(proc[p].ran)]
               /\ r.finished]_vars
  /\ [](\A p \in Procs : Failed(p) => proc[p].pc = "idle" /\ proc[p].txrow = None)
  /\ [][\A p \in Procs :
          (Failed(p) /\ proc'[p] # proc[p])
          => /\ runs' = runs + 1
             /\ audit' = audit
             /\ nextId' = nextId]_vars

\* A run is at its second phase with the first one's row finished, and an
\* earlier run stopped at a failed phase with phases still to go.
C18_Witness ==
  \E p \in Procs :
    /\ proc[p].pc = "ddl"
    /\ Len(proc[p].ran) = 1
    /\ proc[p].prev = "DDLError"
    /\ \E r \in audit : r.index = proc[p].ran[1] /\ r.finished /\ r.id < proc[p].aid


\* The upgrade of process p found the audit log empty and returned without
\* an exception; nothing has touched the revision files.
CleanFirstUpgrade(p) ==
  /\ proc[p].cmd = "up"
  /\ proc[p].pc = "idle"
  /\ proc[p].err = "ok"
  /\ proc[p].seen = None
  /\ rewrites = 0

\* C19: after a failure-free upgrade that started from an empty audit log,
\* migration_audit holds exactly one row per phase of the plan, each with
\* is_revert false and finished_at set, and the rows' ids grow in the plan's
\* PhaseIndex order.
C19_OneRowPerPlannedPhase ==
  \A p \in Procs :
    CleanFirstUpgrade(p)
    => LET plan == get_phases(RepoRevisions, PhaseSlice(None, FALSE, None, FALSE))
           row(n) == CHOOSE r \in audit : r.index = plan[n]
       IN /\ Cardinality(audit) = Len(plan)
          /\ \A n \in 1..Len(plan) : \E r \in audit : r.index = plan[n]
          /\ \A r \in audit : ~r.is_revert /\ r.finished
          /\ \A m, n \in 1..Len(plan) :
               m < n => /\ sortkey(plan[m]) < sortkey(plan[n])
                        /\ row(m).id < row(n).id

\* The whole plan of a repository with pre- and post-deploy phases has been
\* upgraded in one go.
C19_Witness ==
  \E p \in Procs :
    /\ CleanFirstUpgrade(p)
    /\ Len(proc[p].ran) >= 4
    /\ \E i, j \in {proc[p].ran[n] : n \in 1..Len(proc[p].ran)} :
         i.pre_deploy /\ ~j.pre_deploy
    /\ Cardinality(audit) = Len(proc[p].ran)


\* Process p takes a step that begins an execution attempt of a phase: the
\* insert of its audit row went through.
StartsAttempt(p) == proc[p].pc = "astart" /\ proc'[p].pc = "ddl"

\* Row r2 is row r, or row r with finished_at filled in.
SameOrFinished(r, r2) ==
  /\ r2.id = r.id
  /\ r2.index = r.index
  /\ r2.is_revert = r.is_revert
  /\ r.finished => r2.finished

\* C20: the audit log is append-only.  Every execution attempt of a phase,
\* forward or revert, inserts a row under an id no row has had; a committed
\* row is never deleted and changes at most once, finished_at going from
\* NULL to a timestamp; and a row changes only by that update.
C20_AuditAppendOnly ==
  [][/\ \A p \in Procs :
          StartsAttempt(p)
          => /\ proc'[p].aid = nextId
             /\ nextId' > nextId
             /\ \A r \in AllRows : r.id < nextId
             /\ \E r \in AllRows' :
                  /\ r.id = nextId
                  /\ r.index = Head(proc[p].todo)
                  /\ r.is_revert = (proc[p].cmd = "down")
                  /\ ~r.finished
                  /\ AllRows' = AllRows \cup {r}
     /\ \A r \in audit : \E r2 \in audit' : SameOrFinished(r, r2)
     /\ \A r \in audit, r2 \in audit' :
          (r2.id = r.id) => SameOrFinished(r, r2)]_vars

\* The log holds a finished forward row and a finished revert row of the
\* same phase, and an unfinished row left behind by an interrupted attempt.
C20_Witness ==
  /\ \E f, b \in audit :
       /\ f.index = b.index
       /\ ~f.is_revert /\ f.finished
       /\ b.is_revert /\ b.finished
       /\ f.id < b.id
  /\ \E r \in audit : ~r.finished


\* The variants of Change.
ChangeKinds ==
  {"run_ddl", "create_index", "drop_index", "add_constraint", "drop_constraint",
   "begin_rename", "finish_rename"}

\* The disciplines of a phase list, in order.
Disciplines(phases) == [n \in 1..Len(phases) |-> phases[n].disc]

\* The change a PhaseIndex of the on-disk plan belongs to.
ChangeOf(i) ==
  LET m == RevOf(i).migration
  IN (IF i.pre_deploy THEN m.pre_deploy ELSE m.post_deploy)[i.change + 1]

\* Rows r and the index i name the same place of the plan.
SamePlace(i, j) ==
  /\ i.revision = j.revision
  /\ i.pre_deploy = j.pre_deploy
  /\ i.change = j.change
  /\ i.phase = j.phase

\* Process p is executing the VALIDATE CONSTRAINT phase of an AddConstraint.
Validating(p) ==
  /\ proc[p].pc \in {"ddl", "aend"}
  /\ proc[p].cmd = "up"
  /\ ChangeOf(Head(proc[p].todo)).kind = "add_constraint"
  /\ Head(proc[p].todo).phase = 1

\* C21: every change variant expands to a fixed phase list with a fixed
\* discipline: run_ddl one transactional phase; create_index and drop_index
\* one idempotent phase each; add_constraint and drop_constraint two
\* transactional phases each, ADD ... NOT VALID and VALIDATE sitting in
\* different phases; begin_rename one transactional phase; finish_rename
\* two.  A migrator that is validating a constraint does so in a
\* transaction of its own: the ADD's audit row is already committed and
\* finished, and the constraint is already in the catalog.
C21_FixedPhaseLists ==
  /\ \A k \in ChangeKinds :
       LET ps == PhasesOf(Change(k, "x"))
       IN Disciplines(ps) =
            CASE k \in {"run_ddl", "begin_rename"} -> <<"tx">>
              [] k \in {"create_index", "drop_index"} -> <<"idem">>
              [] k \in {"add_constraint", "drop_constraint", "finish_rename"} -> <<"tx", "tx">>
  /\ LET ps == PhasesOf(Change("add_constraint", "x"))
     IN /\ ps[1].up.op = "add_constraint"
        /\ ps[2].up.op = "validate_constraint"
  /\ LET ps == PhasesOf(Change("drop_constraint", "x"))
     IN /\ ps[1].down.op = "validate_constraint"
        /\ ps[2].down.op = "add_constraint"
  /\ \A p \in Procs :
       /\ proc[p].pc \in {"astart", "ddl", "aend"}
          => PhaseOf(Head(proc[p].todo)) =
               PhasesOf(ChangeOf(Head(proc[p].todo)))[Head(proc[p].todo).phase + 1]
       /\ Validating(p)
          => /\ \E r \in audit :
                  /\ SamePlace(r.index, [Head(proc[p].todo) EXCEPT !.phase = 0])
                  /\ ~r.is_revert
                  /\ r.finished
                  /\ r.id < proc[p].aid
             /\ Has(cat, "constraint", ChangeOf(Head(proc[p].todo)).name)

\* A migrator is inside the transaction of the VALIDATE phase, and the
\* catalog still shows the constraint as not valid.
C21_Witness ==
  \E p \in Procs :
    /\ Validating(p)
    /\ proc[p].pc = "aend"
    /\ proc[p].txrow # None
    /\ \E o \in cat.pub : o.kind = "constraint" /\ o.st = "notvalid"


\* The last call was phase.run of a create_index phase, and the call before
\* it was the same call and succeeded.
RanCreateIndexTwice ==
  LET n == Len(calls)
  IN /\ n >= 2
     /\ calls[n].op = "phase_run"
     /\ ChangeOf(calls[n].arg).kind = "create_index"
     /\ calls[n - 1].op = "phase_run"
     /\ calls[n - 1].arg = calls[n].arg
     /\ calls[n - 1].outcome = "ok"

\* C22: running a CreateIndex phase forward twice for the same index
\* succeeds both times, leaves exactly one index, and leaves two finished
\* audit rows carrying the same PhaseIndex.
C22_CreateIndexTwice ==
  RanCreateIndexTwice
  => LET n == Len(calls)
         i == calls[n].arg
     IN /\ calls[n].outcome = "ok"
        /\ Cardinality({o \in cat.pub : o.kind = "index" /\ o.name = ChangeOf(i).name}) = 1
        /\ calls[n].id # calls[n - 1].id
        /\ \A id \in {calls[n].id, calls[n - 1].id} :
             \E r \in audit : r.id = id /\ r.index = i /\ r.finished /\ ~r.is_revert

\* The same CreateIndex phase has just been run twice in a row.
C22_Witness ==
  /\ RanCreateIndexTwice
  /\ calls[Len(calls)].outcome = "ok"
  /\ Cardinality({r \in audit : r.index = calls[Len(calls)].arg /\ r.finished}) = 2


\* C27: create_schema is idempotent: called on a database that already has
\* the migrator's schema it succeeds, and it leaves the tables' contents as
\* they are.
C27_CreateSchemaIdempotent ==
  \A n \in 1..Len(calls) : calls[n].op = "create_schema" => calls[n].outcome = "ok"

\* create_schema has been called a second time, on tables that hold a row.
C27_Witness ==
  /\ Len(calls) >= 3
  /\ calls[1].op = "create_schema"
  /\ calls[Len(calls)].op = "create_schema"
  /\ audit # {}

\* The step is a call of audit_phase_end for a row that is already finished.
EndsFinishedRow ==
  /\ Len(calls') = Len(calls) + 1
  /\ calls'[Len(calls')].op = "audit_phase_end"
  /\ \E r \in audit : r.id = calls'[Len(calls')].id /\ r.finished

\* C28: audit_phase_end on a row whose finished_at is already set fails and
\* leaves the table as it is; no step takes a finished row out of the
\* table or makes it unfinished again.
C28_EndOfFinishedRowFails ==
  [][/\ EndsFinishedRow
        => /\ calls'[Len(calls')].outcome = "ValueError"
           /\ audit' = audit
     /\ \A r \in audit : r.finished => r \in audit']_vars

\* A row was finished by one call of audit_phase_end, and a second call for
\* the same row has failed.
C28_Witness ==
  \E m, n \in 1..Len(calls) :
    /\ m < n
    /\ calls[m].op = "audit_phase_end" /\ calls[m].outcome = "ok"
    /\ calls[n].op = "audit_phase_end" /\ calls[n].outcome = "ValueError"
    /\ calls[n].id = calls[m].id
    /\ \E r \in audit : r.id = calls[m].id /\ r.finished


\* Database.in_tx for the connection of process p: it is inside a
\* "with db.tx()" block, holding uncommitted work.
in_tx(p) == proc[p].txrow # None \/ proc[p].txcat # None

\* The statement of the direction process p is executing.
CurrentSql(p) ==
  LET ph == PhaseOf(Head(proc[p].todo))
  IN IF proc[p].cmd = "up" THEN ph.up ELSE ph.down

\* Process p is at, or just past, a CREATE / DROP INDEX CONCURRENTLY.
AtConcurrentDDL(p) ==
  /\ proc[p].pc \in {"ddl", "aend"}
  /\ CurrentSql(p).op \in {"create_index", "drop_index"}

\* C29: whenever a CREATE or DROP INDEX CONCURRENTLY is executing, forward
\* or as a revert, the migrator's connection is in no transaction; the
\* attempt's audit row has been committed before it, with finished_at NULL,
\* and is finished only by a later step, after the statement's effect is
\* already in the committed catalog.
C29_ConcurrentDDLOutsideTx ==
  /\ [](\A p \in Procs :
          AtConcurrentDDL(p)
          => /\ ~in_tx(p)
             /\ \E r \in audit :
                  /\ r.id = proc[p].aid
                  /\ r.index = Head(proc[p].todo)
                  /\ r.is_revert = (proc[p].cmd = "down")
                  /\ ~r.finished)
  /\ [][\A p \in Procs :
          (AtConcurrentDDL(p) /\ proc[p].pc = "ddl" /\ proc'[p].pc = "aend")
          => /\ audit' = audit
             /\ cat' = Execute(CurrentSql(p), Head(proc[p].todo), cat).cat]_vars
  /\ [][\A p \in Procs :
          (AtConcurrentDDL(p) /\ proc[p].pc = "aend" /\ proc'[p] # proc[p]
             /\ proc'[p].err \in {"running", "ok"})
          => /\ cat' = cat
             /\ \E r \in audit' : r.id = proc[p].aid /\ r.finished]_vars

\* A revert has dropped an index: the index is gone from the committed
\* catalog while the revert's audit row is still unfinished.
C29_Witness ==
  \E p \in Procs :
    /\ AtConcurrentDDL(p)
    /\ proc[p].pc = "aend"
    /\ proc[p].cmd = "down"
    /\ cat # proc[p].snap.cat
    /\ \E r \in audit : r.id = proc[p].aid /\ r.is_revert /\ ~r.finished


\* Sequence s is strictly increasing in the order of PhaseIndex.
Ascending(s) == \A m, n \in 1..Len(s) : m < n => sortkey(s[m]) < sortkey(s[n])

\* The places (revision, pre_deploy, change, phase) the on-disk plan has.
Places ==
  {<<r, pre, c, ph>> \in RevisionNumbers \X BOOLEAN \X (0..3) \X (0..3) :
     LET m == Migration(repo, r)
         changes == IF pre THEN m.pre_deploy ELSE m.post_deploy
     IN c < Len(changes) /\ ph < Len(PhasesOf(changes[c + 1]))}

\* C30: the enumeration of the plan visits the revisions in ascending
\* number, in each revision the pre-deploy changes before the post-deploy
\* ones, changes in list order and phases in array order: it emits every
\* place of the plan once, and the emitted PhaseIndex values are strictly
\* increasing in the order (revision, pre_deploy with true first, change,
\* phase).  An upgrade's plan is therefore ascending and a downgrade's
\* descending.
C30_EnumerationOrder ==
  /\ Ascending(AllPhases)
  /\ {<<AllPhases[n].revision, AllPhases[n].pre_deploy, AllPhases[n].change,
        AllPhases[n].phase>> : n \in 1..Len(AllPhases)} = Places
  /\ Len(AllPhases) = Cardinality(Places)
  /\ \A n \in 1..Len(AllPhases) :
       /\ AllPhases[n].migration_hash = disk[AllPhases[n].revision].migration_hash
       /\ AllPhases[n].schema_hash = disk[AllPhases[n].revision].schema_hash
  /\ \A p \in Procs :
       /\ proc[p].cmd = "up" => Ascending(proc[p].ran) /\ Ascending(proc[p].todo)
       /\ proc[p].cmd = "down" => /\ Ascending(Reverse(proc[p].ran))
                                  /\ Ascending(Reverse(proc[p].todo))

\* An upgrade is in the middle of a plan that has pre-deploy and
\* post-deploy phases in both revisions' range, after a file was edited.
C30_Witness ==
  \E p \in Procs :
    /\ proc[p].cmd = "up"
    /\ proc[p].pc = "ddl"
    /\ Len(proc[p].ran) >= 2
    /\ Len(proc[p].todo) >= 2
    /\ \E m, n \in 1..Len(proc[p].todo) :
         proc[p].todo[m].pre_deploy /\ ~proc[p].todo[n].pre_deploy
    /\ rewrites = 1


\* The numbers on disk are 1..N for some N (N = 0: an empty directory).
ContiguousOnDisk == Range(globbed) = 1..Cardinality(Range(globbed))

\* C26: loading the revision directory succeeds exactly when the set of
\* revision numbers on disk is {1..N}, whatever the order in which the
\* directory listing returns the files.
C26_LoadsExactlyContiguous ==
  parsed.status # "loading" => (parsed.status = "ok" <=> ContiguousOnDisk)

\* The directory holds revisions 1..N, N >= 2, and loading has failed.
C26_Witness ==
  /\ parsed.status = "AssertionError"
  /\ ContiguousOnDisk
  /\ Len(globbed) >= 2
  /\ Len(globbed) = Cardinality(Range(globbed))


\* The positions in the log of the incantations backend pid has executed.
IncantationsOf(pid) ==
  {k \in 1..Len(calls) : calls[k].op = "incantation" /\ calls[k].arg[1] = pid}

Max(S) == CHOOSE x \in S : \A y \in S : y <= x

\* C25: however often a backend executes the incantation, the connections
\* table holds exactly one row for its pid, with the revision and the
\* schema_hash of its most recent execution; a pid that executed none has no
\* row, and an execution leaves the rows of the other pids as they were.
C25_OneRowPerBackend ==
  /\ [](\A pid \in Pids :
          LET ks == IncantationsOf(pid)
              rows == {x \in connections : x.pid = pid}
          IN IF ks = {} THEN rows = {}
             ELSE /\ Cardinality(rows) = 1
                  /\ \A x \in rows :
                       /\ x.revision = calls[Max(ks)].arg[2]
                       /\ x.schema_hash = disk[x.revision].schema_hash)
  /\ [][\A pid \in Pids :
          IncantationsOf(pid)' = IncantationsOf(pid)
          => {x \in connections' : x.pid = pid} = {x \in connections : x.pid = pid}]_vars

\* A backend has executed the incantation three times, last for another
\* revision than first, while another backend's row stayed in the table.
C25_Witness ==
  \E pid, other \in Pids :
    /\ pid # other
    /\ Cardinality(IncantationsOf(pid)) = 3
    /\ Cardinality(IncantationsOf(other)) = 1
    /\ Max(IncantationsOf(other)) = 1
    /\ \E j, k \in IncantationsOf(pid) : calls[j].arg[2] # calls[k].arg[2]
    /\ Cardinality(connections) = 2


\* C23: for any two snapshots, the pre-deploy list and then the post-deploy
\* list of diff(before, after), applied to before, yield after.
C23_DiffIsLeftInverse ==
  fixture # None /\ fixture.stage = "done" => fixture.live = fixture.after

\* Both snapshots hold the sequence, with different definitions; the
\* generated migration has been applied in full.
C23_Witness ==
  /\ fixture # None
  /\ fixture.stage = "done"
  /\ fixture.before[<<"sequence", "s">>] # {}
  /\ fixture.after[<<"sequence", "s">>] # {}
  /\ fixture.before[<<"sequence", "s">>] # fixture.after[<<"sequence", "s">>]
  /\ fixture.live # fixture.after
  /\ \A k \in ObjKeys \ {<<"sequence", "s">>} : fixture.live[k] = fixture.after[k]

\* C24: diff puts every creation, and every operation that adds or alters
\* the columns of a table, in pre_deploy, and every drop of an object or of
\* a column in post_deploy; what pre_deploy leaves behind still has every
\* object and every column of the old snapshot.
C24_DropsArePostDeploy ==
  (fixture # None /\ fixture.stage # "new")
  => LET pre == fixture.migration.pre_deploy
         post == fixture.migration.post_deploy
         old == fixture.before
         new == fixture.after
     IN /\ \A n \in 1..Len(pre) :
             pre[n].up.op \in {"create", "alter", "add_modify_columns"}
        /\ \A n \in 1..Len(post) : post[n].up.op \in {"drop", "drop_columns"}
        /\ \A k \in ObjKeys :
             /\ (old[k] = {} /\ new[k] # {})
                => \E n \in 1..Len(pre) : pre[n].up = Effect("create", k, new[k])
             /\ (old[k] # {} /\ new[k] = {})
                => \E n \in 1..Len(post) : post[n].up = Effect("drop", k, {})
             /\ (k[1] = "table" /\ new[k] # {} /\ NamesOf(old[k]) \ NamesOf(new[k]) # {})
                => \E n \in 1..Len(post) : post[n].up = Effect("drop_columns", k, new[k])
             /\ (k[1] = "table" /\ old[k] # {} /\ NamesOf(new[k]) \ NamesOf(old[k]) # {})
                => \E n \in 1..Len(pre) : pre[n].up = Effect("add_modify_columns", k, new[k])
        /\ fixture.stage = "deploying"
           => \A k \in ObjKeys :
                /\ old[k] # {} => fixture.live[k] # {}
                /\ NamesOf(old[k]) \subseteq NamesOf(fixture.live[k])

\* Between the two deploys: the table has the old snapshot's column and the
\* new one's, an object only the new snapshot has exists already, and an
\* object only the old one has is still there.
C24_Witness ==
  /\ fixture # None
  /\ fixture.stage = "deploying"
  /\ NamesOf(fixture.before[<<"table", "t">>]) = {"a"}
  /\ NamesOf(fixture.after[<<"table", "t">>]) = {"b"}
  /\ NamesOf(fixture.live[<<"table", "t">>]) = {"a", "b"}
  /\ fixture.before[<<"index", "i">>] # {} /\ fixture.after[<<"index", "i">>] = {}
  /\ fixture.live[<<"index", "i">>] # {}
  /\ fixture.before[<<"view", "v">>] = {} /\ fixture.live[<<"view", "v">>] # {}


\* C31: every row of migration_audit has finished_at NULL or
\* finished_at >= started_at.
C31_FinishedNotBeforeStarted ==
  \A r \in audit :
    /\ r.id \in DOMAIN clock.started_at
    /\ r.finished <=> r.id \in DOMAIN clock.finished_at
    /\ r.finished => clock.finished_at[r.id] >= clock.started_at[r.id]

\* One row was finished in the transaction that inserted it, another in a
\* later transaction, both after the clock had moved.
C31_Witness ==
  \E r \in audit, o \in audit :
    /\ r.finished /\ o.finished
    /\ clock.started_at[r.id] > 0
    /\ clock.finished_at[r.id] = clock.started_at[r.id]
    /\ clock.started_at[o.id] > 0
    /\ clock.finished_at[o.id] > clock.started_at[o.id]


\* The DDLStep has neither up nor down statements.
EmptyRunDDL(h) == h.kind = "run_ddl" /\ h.up = NoEffect /\ h.down = NoEffect

\* out is raw with its empty DDLSteps taken out and nothing else changed.
RECURSIVE IsElisionOf(_, _)
IsElisionOf(out, raw) ==
  IF raw = <<>> THEN out = <<>>
  ELSE IF EmptyRunDDL(Head(raw)) THEN IsElisionOf(out, Tail(raw))
  ELSE out # <<>> /\ Head(out) = Head(raw) /\ IsElisionOf(Tail(out), Tail(raw))

\* C32: the lists diff returns hold no RunDDL whose up and down are both
\* empty, and hold every other generated change, in the order of generation.
C32_EmptyRunDDLElided ==
  (fixture # None /\ fixture.stage \in {"generated", "deploying", "done"})
  => /\ \A n \in 1..Len(fixture.migration.pre_deploy) :
          ~EmptyRunDDL(fixture.migration.pre_deploy[n])
     /\ \A n \in 1..Len(fixture.migration.post_deploy) :
          ~EmptyRunDDL(fixture.migration.post_deploy[n])
     /\ IsElisionOf(fixture.migration.pre_deploy, fixture.holders.pre_deploy)
     /\ IsElisionOf(fixture.migration.post_deploy, fixture.holders.post_deploy)

\* The generated pre-deploy changes are an empty DDLStep (the table, the
\* same in both snapshots), between them a DDLStep that is not empty and a
\* typed change; the list returned has the latter two, in that order.
C32_Witness ==
  /\ fixture # None
  /\ fixture.stage = "generated"
  /\ \E n \in 1..Len(fixture.holders.pre_deploy) : EmptyRunDDL(fixture.holders.pre_deploy[n])
  /\ \E n \in 1..Len(fixture.holders.post_deploy) : EmptyRunDDL(fixture.holders.post_deploy[n])
  /\ Len(fixture.migration.pre_deploy) = 2
  /\ fixture.migration.pre_deploy[1].kind = "run_ddl"
  /\ fixture.migration.pre_deploy[2].kind = "create_index"
  /\ Len(fixture.holders.pre_deploy) > 2


\* The new snapshot's object under key k declares an old name that is the
\* key of an object of the old snapshot.
RenamedFrom(k) ==
  {o \in oldkeys(k, fixture.after[k]) : fixture.before[o] # {}}

\* C33: when an object of the new snapshot declares a prior name that is
\* the key of an object of the old snapshot, post_deploy has no drop of
\* that old object, of whatever kind.
C33_RenamedNotDropped ==
  (fixture # None /\ fixture.stage \in {"generated", "deploying", "done"})
  => \A k \in ObjKeys : \A o \in RenamedFrom(k) :
       \A n \in 1..Len(fixture.migration.post_deploy) :
         fixture.migration.post_deploy[n].up # Effect("drop", o, {})

\* A table and an index are both renamed: the old table is not dropped, the
\* old index is.
C33_Witness ==
  /\ fixture # None
  /\ fixture.stage = "generated"
  /\ RenamedFrom(<<"table", "t2">>) = {<<"table", "t">>}
  /\ RenamedFrom(<<"index", "i2">>) = {<<"index", "i">>}
  /\ \A n \in 1..Len(fixture.migration.post_deploy) :
       fixture.migration.post_deploy[n].up # Effect("drop", <<"table", "t">>, {})
  /\ \E n \in 1..Len(fixture.migration.post_deploy) :
       /\ fixture.migration.post_deploy[n].kind = "drop_index"
       /\ fixture.migration.post_deploy[n].up = Effect("drop", <<"index", "i">>, {})


\* Two finished forward rows of index i with no revert row of i between them.
AppliedTwice(i) ==
  \E r1 \in audit, r2 \in audit :
    /\ r1.index = i /\ r2.index = i
    /\ r1.id < r2.id
    /\ r1.finished /\ ~r1.is_revert
    /\ r2.finished /\ ~r2.is_revert
    /\ ~\E x \in audit : x.index = i /\ x.is_revert /\ r1.id < x.id /\ x.id < r2.id

\* Nothing but upgrades has happened: no downgrade, no kill, no error of the
\* database's own.
OnlyUpgrades ==
  /\ kills = 0
  /\ faults = 0
  /\ \A p \in Procs : proc[p].cmd # "down"
  /\ \A r \in audit : ~r.is_revert

\* C34: under any interleaving of two migrators running upgrade, no
\* PhaseIndex has two finished forward audit rows without a revert row of
\* that index between them.
C34_NoPhaseAppliedTwice ==
  OnlyUpgrades => \A r \in audit : ~AppliedTwice(r.index)

\* Both migrators are in their first upgrade, and an idempotent phase has
\* two finished forward rows.
C34_Witness ==
  /\ OnlyUpgrades
  /\ runs = 2
  /\ \A p \in Procs : proc[p].cmd = "up"
  /\ \E r \in audit : AppliedTwice(r.index) /\ PhaseOf(r.index).disc = "idem"


\* Process p starts a command (upgrade or downgrade) in this step.
StartsCommand(p) == proc[p].pc = "idle" /\ runs' = runs + 1 /\ proc'[p] # proc[p]

\* C35: an unfinished audit row, whenever there is one, is the row with the
\* greatest id; a command that starts while it exists gets it from
\* get_latest_audit and ends on the assertion before it starts any phase (a
\* downgrade may end earlier still, on a target that is not recorded).
C35_UnfinishedIsLatest ==
  /\ [](\A r \in audit : ~r.finished => r = get_latest_audit(audit))
  /\ [][\A p \in Procs :
          (StartsCommand(p) /\ Unfinished(audit) # {})
          => /\ proc'[p].pc = "idle"
             /\ proc'[p].err \in {"AssertionError", "KeyError"}
             /\ proc'[p].cmd = "up" => proc'[p].err = "AssertionError"
             /\ proc'[p].err = "AssertionError" => proc'[p].seen \in Unfinished(audit)
             /\ audit' = audit /\ cat' = cat /\ revisions' = revisions]_vars

\* An unfinished row follows finished ones, and both an upgrade and a
\* downgrade have just ended on the assertion after reading it.
C35_Witness ==
  \E r \in Unfinished(audit) :
    /\ \E o \in audit : o.finished /\ o.id < r.id
    /\ \E p \in Procs : proc[p].cmd = "up" /\ proc[p].err = "AssertionError" /\ proc[p].seen = r
    /\ \E p \in Procs : proc[p].cmd = "down" /\ proc[p].err = "AssertionError" /\ proc[p].seen = r


\* C36: while a phase of revision r executes, forward or revert, in a fresh
\* run or in one that resumes in the middle of r, the shim schema of r
\* exists; also for a revision whose pre_deploy list is empty.
C36_ShimExistsDuringPhase ==
  \A p \in Procs : InPhase(p) => Head(proc[p].todo).revision \in cat.shims

\* The post-deploy phase of a revision without pre-deploy changes executes
\* in an upgrade, and the revision has no shim schema.
C36_Witness ==
  \E p \in Procs :
    /\ proc[p].cmd = "up"
    /\ proc[p].pc = "ddl"
    /\ ~Head(proc[p].todo).pre_deploy
    /\ Migration(repo, Head(proc[p].todo).revision).pre_deploy = <<>>
    /\ Head(proc[p].todo).revision \notin cat.shims


\* The indexes process p planned in its current command, the finished ones
\* included.
Planned(p) == proc[p].ran \o proc[p].todo

\* Process p is in, or has ended, an upgrade that is the retry of an upgrade
\* which failed on DDL; the retry's plan begins with the first phase of a
\* revision, which is therefore the phase that failed and was rolled back.
RetriesFirstPhase(p) ==
  /\ proc[p].cmd = "up"
  /\ proc[p].prev = "DDLError"
  /\ runs = 2
  /\ kills = 0
  /\ rewrites = 0
  /\ Planned(p) # <<>>
  /\ Head(Planned(p)) = first_index(RevOf(Head(Planned(p))))

\* C37: when the first phase of a revision failed in a transactional
\* direction, a re-run of upgrade is not stopped by what the failed attempt
\* left behind: it does not fail while creating the shim schema or recording
\* the revision, and so gets to run the phase again.
C37_RetryNotStoppedByLeftovers ==
  \A p \in Procs :
    RetriesFirstPhase(p) => ~(proc[p].pc = "idle" /\ proc[p].failpc \in {"shim", "upsert"})

\* The first phase failed on an error of the database's own, which does not
\* recur; the re-run has ended in upsert_revision.
C37_Witness ==
  \E p \in Procs :
    /\ RetriesFirstPhase(p)
    /\ faults = 1
    /\ ~proc[p].fault
    /\ proc[p].pc = "idle"
    /\ proc[p].failpc = "upsert"
    /\ proc[p].err = "ValueError"
    /\ proc[p].ran = <<>>
    /\ Head(proc[p].todo).revision \in cat.shims
    /\ Stored(RevOf(Head(proc[p].todo)))


\* C38: upgrade started when the latest audit row is a finished forward row
\* for the last phase of the last on-disk revision plans nothing: the command
\* returns at once, having run no phase, and the audit log, the SERIAL
\* sequence, the revisions table and the catalog (shim schemas included) are
\* what they were.
C38_UpgradeAtHeadDoesNothing ==
  [][\A p \in Procs :
       (/\ StartsCommand(p)
        /\ proc'[p].cmd = "up"
        /\ FullyUpgraded(get_latest_audit(audit)))
       => /\ proc'[p].pc = "idle"
          /\ proc'[p].err = "ok"
          /\ proc'[p].todo = <<>>
          /\ audit' = audit
          /\ nextId' = nextId
          /\ revisions' = revisions
          /\ cat' = cat]_vars

\* An upgrade that found the whole plan applied and returned.
C38_Witness ==
  \E p \in Procs :
    /\ proc[p].cmd = "up"
    /\ proc[p].pc = "idle"
    /\ proc[p].err = "ok"
    /\ proc[p].ran = <<>>
    /\ rewrites = 0
    /\ FullyUpgraded(proc[p].seen)
    /\ get_latest_audit(audit) = proc[p].seen


\* The committed rows about the phase at the position of row r: the same
\* revision, deploy half, change and phase, whatever the hashes.
RowsAt(r) == {s \in audit : sortkey(s.index) = sortkey(r.index)}

\* The phase row r is about is applied: the newest row about it is a finished
\* forward row.
CurrentlyApplied(r) ==
  /\ ~r.is_revert
  /\ r.finished
  /\ \A s \in RowsAt(r) : s.id <= r.id

\* No phase of a revision above T is applied.
NothingAppliedAbove(T) ==
  \A r \in audit : r.index.revision > T => ~CurrentlyApplied(r)

\* Process p takes a step of the downgrade it is running, and the audit log
\* is still as the command found it.
DowngradeStep(p) ==
  /\ proc[p].cmd = "down"
  /\ proc[p].pc # "idle"
  /\ proc'[p] # proc[p]
  /\ get_latest_audit(audit) = proc[p].seen

\* C39: downgrade(T) run while no phase of a revision above T is applied
\* reverts nothing: no step of it changes the audit log or the catalog (no
\* DDL, no shim schema created or dropped), and no step leaves a row or DDL
\* pending in a transaction.
C39_DowngradeAtHeadDoesNothing ==
  [][\A p \in Procs :
       \/ /\ StartsCommand(p)
          /\ proc'[p].cmd = "down"
          /\ NothingAppliedAbove(proc'[p].target)
          /\ audit' = audit
          /\ nextId' = nextId
          /\ cat' = cat
       \/ /\ DowngradeStep(p)
          /\ NothingAppliedAbove(proc[p].target)
          /\ audit' = audit
          /\ nextId' = nextId
          /\ cat' = cat
          /\ proc'[p].txrow = None
          /\ proc'[p].txcat = None
          /\ proc'[p].ran = <<>>
       \/ ~(StartsCommand(p) /\ proc'[p].cmd = "down" /\ NothingAppliedAbove(proc'[p].target))
          /\ ~(DowngradeStep(p) /\ NothingAppliedAbove(proc[p].target))]_vars

\* A downgrade to the revision the database is already at has returned: the
\* revisions above it were reverted by an earlier downgrade and are still in
\* the revisions table.
C39_Witness ==
  \E p \in Procs :
    /\ proc[p].cmd = "down"
    /\ proc[p].pc = "idle"
    /\ proc[p].err = "ok"
    /\ proc[p].ran = <<>>
    /\ proc[p].seen # None
    /\ proc[p].seen.is_revert
    /\ proc[p].seen.index.revision > proc[p].target
    /\ NothingAppliedAbove(proc[p].target)
    /\ RevisionNumbered(get_revisions, proc[p].target + 1) # None


\* The committed forward rows of exactly index i, hashes included.
ForwardRows(i) == {r \in audit : r.index = i /\ ~r.is_revert}

\* Process p is in Phase.revert for the index at the head of its plan, past
\* the lookup of the forward row.
Reverting(p) == proc[p].cmd = "down" /\ proc[p].pc \in {"ddl", "aend"}

\* Process p leaves the lookup of Phase.revert.
LooksUpForward(p) ==
  /\ proc[p].cmd = "down"
  /\ proc[p].pc = "astart"
  /\ proc'[p] # proc[p]
  /\ proc'[p].err # "killed"

\* C40: Phase.revert gets to its down DDL only when the audit log holds a
\* forward row of exactly the index it reverts; when it holds none, the
\* revert raises at the lookup: the command ends there with ValueError, no
\* row is written, no id is taken, nothing is pending in a transaction and
\* the catalog is untouched.
C40_RevertNeedsForwardRow ==
  /\ [](\A p \in Procs : Reverting(p) => ForwardRows(Head(proc[p].todo)) # {})
  /\ [][\A p \in Procs :
          (LooksUpForward(p) /\ ForwardRows(Head(proc[p].todo)) = {})
          => /\ proc'[p].pc = "idle"
             /\ proc'[p].err = "ValueError"
             /\ proc'[p].failpc = "astart"
             /\ proc'[p].txrow = None
             /\ proc'[p].txcat = None
             /\ audit' = audit
             /\ nextId' = nextId
             /\ cat' = cat]_vars

\* A revert has raised at the lookup although the audit log holds a forward
\* row for the same phase: the row carries the hashes of files that were
\* edited after the revision was recorded.
C40_Witness ==
  \E p \in Procs :
    /\ proc[p].cmd = "down"
    /\ proc[p].pc = "idle"
    /\ proc[p].err = "ValueError"
    /\ proc[p].failpc = "astart"
    /\ ForwardRows(Head(proc[p].todo)) = {}
    /\ \E r \in audit : sortkey(r.index) = sortkey(Head(proc[p].todo)) /\ ~r.is_revert

====
